---- MODULE Spec2Model ----
(***************************************************************************)
(* A model of the Lama bytecode interpreter (src/src/Main.cpp,             *)
(* src/src/Interpreter.cpp, src/src/Interpreter.hpp, src/src/Utils.hpp,    *)
(* src/src/Opcodes.hpp).                                                   *)
(*                                                                         *)
(* The build is a 32-bit one: Interpreter.cpp:584 bit_casts a usize* to    *)
(* u32, which only compiles when pointers, usize and u32 have one width.   *)
(* That width is scaled down to U32Bits bits here; every u32/usize/i32     *)
(* operation is taken modulo U32Mod.  The file size is a std::streamoff    *)
(* (64 bits) and is an unbounded Int.                                      *)
(*                                                                         *)
(* C++ undefined behaviour (an access outside innerData or outside the     *)
(* file buffer, a wild instruction pointer, a division by zero) records    *)
(* its kind in ub; the model explores no step after it, since any          *)
(* continuation is possible.  A formula below that describes defined       *)
(* behaviour is stated for states with ub = "".                            *)
(***************************************************************************)
EXTENDS Integers, Sequences, FiniteSets, TLC

(***************************************************************************)
(* Bounds of the model.                                                    *)
(***************************************************************************)
\* width in bits of u32, i32, usize and of a pointer
U32Bits == 7
\* number of words of Stack::innerData (100'000 in the source)
MAX_STACK_SIZE == 24
\* largest file size drawn by the reader's specification
MaxFileSize == 20
\* number of heap objects the runtime can allocate
MaxHeap == 2

U32Mod == 2 ^ U32Bits
U32 == 0 .. (U32Mod - 1)
Byte == 0 .. 255

\* conversion of an integer to u32 / usize (modular)
ToU32(x) == x % U32Mod
\* conversion of a u32 bit pattern to i32 / int / ptrdiff_t
ToI32(x) == IF ToU32(x) >= U32Mod \div 2 THEN ToU32(x) - U32Mod ELSE ToU32(x)

(***************************************************************************)
(* Utils.hpp                                                               *)
(***************************************************************************)
satAdd(lhs, rhs) ==
    LET res == ToU32(lhs + rhs)
    IN  IF res < lhs THEN U32Mod - 1 ELSE res

(***************************************************************************)
(* Words.  A stack slot, a heap cell and a pointer variable hold a Word    *)
(* [t, v, c]:                                                              *)
(*   "int"   the machine integer v (a boxed integer is an odd one),        *)
(*   "sp"    the address of innerData[v],                                  *)
(*   "ip"    the address of byte v of the bytecode view,                   *)
(*   "hp"    the address of word c of the contents of heap object v,       *)
(*   "undef" an indeterminate value (an uninitialised or out-of-range      *)
(*           read).                                                        *)
(***************************************************************************)
IntW(n) == [t |-> "int", v |-> ToU32(n), c |-> 0]
StackPtr(i) == [t |-> "sp", v |-> i, c |-> 0]
CodePtr(off) == [t |-> "ip", v |-> off, c |-> 0]
HeapPtr(o, cell) == [t |-> "hp", v |-> o, c |-> cell]
Undef == [t |-> "undef", v |-> 0, c |-> 0]
Null == IntW(0)

\* the integers a word may convert to: a pointer's and an indeterminate
\* value's bit pattern depends on the build
IntOf(w) == IF w.t = "int" THEN {w.v} ELSE U32

\* pointer + n words
PtrAdd(w, n) ==
    CASE w.t = "sp" -> StackPtr(w.v + n)
      [] w.t = "hp" -> HeapPtr(w.v, w.c + n)
      [] OTHER -> Undef

\* runtime_common.h: BOX(x) ((((int) (x)) << 1) | 0x0001)
BOX(x) == ToU32(2 * ToU32(x) + 1)
\* runtime_common.h: UNBOX(x) (((int) (x)) >> 1), an arithmetic shift
UNBOX(x) == ToI32(x) \div 2

(***************************************************************************)
(* Opcodes.hpp                                                             *)
(***************************************************************************)
BINOP_add == 1
BINOP_sub == 2
BINOP_mul == 3
BINOP_div == 4
BINOP_rem == 5
BINOP_lt == 6
BINOP_le == 7
BINOP_gt == 8
BINOP_ge == 9
BINOP_eq == 10
BINOP_ne == 11
BINOP_and == 12
BINOP_or == 13
CONST == 16
STRING_op == 17
SEXP == 18
STI == 19
STA == 20
JMP == 21
END == 22
RET == 23
DROP == 24
DUP == 25
SWAP == 26
ELEM == 27
LD_G == 32
LDA_G == 48
ST_G == 64
CJMPz == 80
CJMPnz == 81
BEGIN == 82
CBEGIN == 83
CLOSURE == 84
CALLC == 85
CALL == 86
TAG == 87
ARRAY == 88
FAIL == 89
LINE == 90
PATT_str == 96
PATT_fun == 102
CALL_Lread == 112
CALL_Lwrite == 113
CALL_Llength == 114
CALL_Lstring == 115
CALL_Barray == 116

\* enum class VariableType
Global == 0
Local == 1
Argument == 2
Captured == 3

\* u8 low = (code & 0x0F)
LowNibble(code) == code % 16

(***************************************************************************)
(* The file.  A file is a sequence of bytes; offsets into it are 0-based.  *)
(***************************************************************************)
\* the little-endian encoding of a 32-bit operand or header field
U32LE(v) == << v % 256, (v \div 256) % 256, (v \div 65536) % 256, 0 >>

\* byte at 0-based offset off of the file buffer; \notin Byte when outside
FileByte(f, off) == IF off >= 0 /\ off < Len(f) THEN f[off + 1] ELSE -1

\* copyValues(&u32, ptr): memcpy of four bytes, reduced to the model's width.
\* The bytes are in the buffer (the caller's concern, as in the source).
copyValues(f, off) ==
    ToU32(f[off + 1] + 256 * f[off + 2] + 65536 * f[off + 3]
          + 16777216 * (f[off + 4] % 64))

\* sizeof(i32), and u32 headerSize = 3 * sizeof(i32)
SizeofI32 == 4
headerSize == 12

\* a std::span: offset of its first element in the file buffer, and its
\* number of elements
Span(off, size) == [off |-> off, size |-> size]
EmptySpan == Span(0, 0)

(***************************************************************************)
(* Bytefile::readBytefile.  fileSize is the streamoff; the three header    *)
(* fields are u32.  Returns the number of diagnostics and the views.       *)
(***************************************************************************)
readBytefile(fileSize, strPoolSize, globalAreaSize, publicSymbolsNumber) ==
    LET twoP == ToU32(publicSymbolsNumber * 2)
        \* publicSymbolsNumber * 2 + headerSize >= fileSize
        err1 == ToU32(twoP + headerSize) >= fileSize
        publicSymbols == IF err1 THEN EmptySpan
                         ELSE Span(headerSize, ToU32(publicSymbolsNumber * 2))
        \* strPoolSize + publicSymbolsNumber * 2 + headerSize >= fileSize
        err2 == ToU32(strPoolSize + twoP + headerSize) >= fileSize
        strPool == IF err2 THEN EmptySpan
                   ELSE Span(ToU32(headerSize + ToU32(twoP * SizeofI32)), strPoolSize)
        psBytes == ToU32(publicSymbols.size * SizeofI32)
        bytecodeSize == ToU32(fileSize - psBytes - strPool.size - headerSize)
        err3 == bytecodeSize = 0 \/ bytecodeSize >= fileSize
        bytecode == IF err3 THEN EmptySpan
                    ELSE Span(ToU32(headerSize + psBytes + strPool.size), bytecodeSize)
    IN  [ errors |-> (IF err1 THEN 1 ELSE 0) + (IF err2 THEN 1 ELSE 0)
                     + (IF err3 THEN 1 ELSE 0),
          publicSymbols |-> publicSymbols,
          strPool |-> strPool,
          bytecode |-> bytecode,
          globalAreaSize |-> globalAreaSize ]

(***************************************************************************)
(* class Stack (Interpreter.hpp:83-117), with the runtime's two globals    *)
(* __gc_stack_top and __gc_stack_bottom (LamaRuntime.hpp:42) as the fields *)
(* top and bottom.  Slots are indices into innerData; an index outside     *)
(* 0 .. MAX_STACK_SIZE-1 is an address outside the array.  oob records     *)
(* that a slot outside the array was read or written.                      *)
(***************************************************************************)
InArray(i) == i >= 0 /\ i < MAX_STACK_SIZE

\* *p for a usize* p
Load(s, i) == IF InArray(i) THEN s.innerData[i] ELSE Undef
\* *p = w
Store(s, i, w) ==
    IF InArray(i) THEN [s EXCEPT !.innerData[i] = w] ELSE [s EXCEPT !.oob = TRUE]
Touch(s, i) == IF InArray(i) THEN s ELSE [s EXCEPT !.oob = TRUE]

\* void Stack::push(usize value) { *(__gc_stack_top--) = value; }
push(s, w) == [Store(s, s.top, w) EXCEPT !.top = s.top - 1]

\* a pop that reads the word and leaves the top pointer where it was
pop_KeepsTop(s) == Touch(s, s.top + 1)

\* auto Stack::pop() -> usize { return *(++__gc_stack_top); }
popped(s) == Load(s, s.top + 1)
pop(s) == [Touch(s, s.top + 1) EXCEPT !.top = s.top + 1]

\* auto Stack::top() -> usize { return *(__gc_stack_top + 1); }
topWord(s) == Load(s, s.top + 1)

\* static_cast<usize>(begin - __gc_stack_top) >= n
enoughToPop(s, n) == ToU32(s.begin - s.top) >= n

\* static_cast<usize>(innerData.data() - __gc_stack_top) >= n
enoughToPush(s, n) == ToU32(0 - s.top) >= n

\* Stack::Stack(u32 globalsSizeWords), on the uninitialised innerData
StackCtor(globalsSizeWords) ==
    LET bottom == MAX_STACK_SIZE - 1
        start == bottom - globalsSizeWords
        s0 == [ innerData |-> [i \in 0 .. (MAX_STACK_SIZE - 1) |-> Undef],
                top |-> start, bottom |-> bottom, begin |-> start,
                bp |-> StackPtr(start), nArgs |-> 2, nLocals |-> 0,
                globalsSize |-> globalsSizeWords, oob |-> FALSE ]
    IN  push(push(s0, IntW(BOX(0))), Null)

\* a getReference that checks no index against globalsSize, nLocals, nArgs
getReference_Unchecked(s, index, kind) ==
    CASE kind = Global -> StackPtr(s.begin + 1 + index)
      [] kind = Local -> PtrAdd(s.bp, 0 - 1 - index)
      [] kind = Argument -> PtrAdd(s.bp, 3 + s.nArgs - index)
      [] OTHER -> PtrAdd(Load(s, s.bp.v + 3 + s.nArgs + 1), 1 + index)

\* std::nullopt of getReference
NoRef == [t |-> "none", v |-> 0, c |-> 0]

\* a getReference that takes argument 0 for the word pushed last
getReference_LastPushedFirst(s, index, kind) ==
    CASE kind = Global ->
            IF index > s.globalsSize THEN NoRef ELSE StackPtr(s.begin + 1 + index)
      [] kind = Local ->
            IF index >= s.nLocals THEN NoRef ELSE PtrAdd(s.bp, 0 - 1 - index)
      [] kind = Argument ->
            IF index >= s.nArgs THEN NoRef ELSE PtrAdd(s.bp, 4 + index)
      [] kind = Captured ->
            LET slot == PtrAdd(s.bp, 3 + s.nArgs + 1)
                closure == IF slot.t = "sp" THEN Load(s, slot.v) ELSE Undef
            IN  PtrAdd(closure, 1 + index)
      [] OTHER -> NoRef

\* Stack::getReference: the slot's address, or NoRef for std::nullopt
getReference(s, index, kind) ==
    CASE kind = Global ->
            IF index > s.globalsSize THEN NoRef ELSE StackPtr(s.begin + 1 + index)
      [] kind = Local ->
            IF index >= s.nLocals THEN NoRef ELSE PtrAdd(s.bp, 0 - 1 - index)
      [] kind = Argument ->
            IF index >= s.nArgs THEN NoRef ELSE PtrAdd(s.bp, 3 + s.nArgs - index)
      [] kind = Captured ->
            LET slot == PtrAdd(s.bp, 3 + s.nArgs + 1)
                closure == IF slot.t = "sp" THEN Load(s, slot.v) ELSE Undef
            IN  PtrAdd(closure, 1 + index)
      [] OTHER -> NoRef

\* std::fill(first, first + count, w): every slot of the range is written
fill(s, first, count, w) ==
    [s EXCEPT !.innerData = [i \in 0 .. (MAX_STACK_SIZE - 1) |->
                                IF i >= first /\ i < first + count THEN w
                                ELSE s.innerData[i]],
              !.oob = s.oob \/ (count > 0 /\ (~InArray(first)
                                               \/ ~InArray(first + count - 1)))]

\* a prologue that reserves the locals and leaves their words as they are
prologue_NoFill(s, newNArgs, newNLocals) ==
    IF ~enoughToPush(s, satAdd(4, newNLocals))
    THEN [ok |-> FALSE, s |-> s]
    ELSE LET s1 == push(s, IntW(BOX(s.nArgs)))
             s2 == push(s1, IntW(BOX(s.nLocals)))
             s3 == push(s2, s.bp)
         IN  [ok |-> TRUE, s |-> [s3 EXCEPT !.nArgs = newNArgs,
                                            !.nLocals = newNLocals,
                                            !.bp = StackPtr(s3.top + 1),
                                            !.top = s3.top - ToU32(newNLocals + 1)]]

\* Stack::prologue
prologue(s, newNArgs, newNLocals) ==
    IF ~enoughToPush(s, satAdd(4, newNLocals))
    THEN [ok |-> FALSE, s |-> s]
    ELSE LET s1 == push(s, IntW(BOX(s.nArgs)))
             s2 == push(s1, IntW(BOX(s.nLocals)))
             s3 == push(s2, s.bp)
             s4 == [s3 EXCEPT !.nArgs = newNArgs,
                              !.nLocals = newNLocals,
                              !.bp = StackPtr(s3.top + 1),
                              !.top = s3.top - ToU32(newNLocals + 1)]
         IN  [ok |-> TRUE, s |-> fill(s4, s4.top, newNLocals + 2, IntW(BOX(0)))]

\* Stack::epilogue: the set of its outcomes [ret, s]; ret = Null is the
\* nullptr it returns.  More than one outcome only when a saved counter
\* slot holds a pointer or an indeterminate value.
epilogue(s, isClosureCall) ==
    LET valuesToPop == 5 + (IF isClosureCall THEN 1 ELSE 0)
    IN  IF ~enoughToPop(s, satAdd(valuesToPop, s.nArgs))
        THEN {[ret |-> Null, s |-> s]}
        ELSE LET retval == popped(s)
                 s1 == pop(s)
                 nArgsOld == s.nArgs
                 \* __gc_stack_top = bp - 1; a bp that is no stack address
                 \* makes the pops below read outside the array
                 s2 == IF s1.bp.t = "sp" THEN [s1 EXCEPT !.top = s1.bp.v - 1]
                       ELSE [s1 EXCEPT !.oob = TRUE]
                 bpWord == popped(s2)
                 s3 == pop(s2)
                 nLocalsWord == popped(s3)
                 s4 == pop(s3)
                 nArgsWord == popped(s4)
                 s5 == pop(s4)
                 returnAddress == popped(s5)
                 s6 == pop(s5)
                 s7 == [s6 EXCEPT !.top = s6.top + nArgsOld]
                 s8 == IF isClosureCall THEN pop(s7) ELSE s7
                 s9 == push(s8, retval)
             IN  { [ret |-> returnAddress,
                    s |-> [s9 EXCEPT !.bp = bpWord,
                                     !.nLocals = ToU32(UNBOX(l)),
                                     !.nArgs = ToU32(UNBOX(a))]] :
                   l \in IntOf(nLocalsWord), a \in IntOf(nArgsWord) }

\* Stack::closureRelativeAddr: *ptr for the closure pointer at top + 1 + args
\* is read by the caller from the heap; this is the pointer word
closureSlot(s, args) == Load(s, s.top + 1 + args)

(***************************************************************************)
(* struct Bytefile.  The views are spans into the file buffer; ip and      *)
(* prevIP are Words (a CodePtr is an offset from bytecode.data()).         *)
(***************************************************************************)
\* bytecode.size() - static_cast<usize>(ip - bytecode.begin().base()) >= bytes
enoughBytes(b, bytes) == ToU32(b.bytecode.size - b.ip.v) >= bytes

\* a trySetAddress without the comparison with bytecode.size()
trySetAddress_Unchecked(b, absoluteAddress) ==
    [ok |-> TRUE, b |-> [b EXCEPT !.ip = CodePtr(absoluteAddress)]]

\* Bytefile::trySetAddress
trySetAddress(b, absoluteAddress) ==
    IF b.bytecode.size <= absoluteAddress
    THEN [ok |-> FALSE, b |-> b]
    ELSE [ok |-> TRUE, b |-> [b EXCEPT !.ip = CodePtr(absoluteAddress)]]

\* Bytefile::address
address(b) == ToU32(b.ip.v)

\* *ip for an ip inside the view
CodeByte(f, b, off) == FileByte(f, b.bytecode.off + off)

(***************************************************************************)
(* The runtime heap.  alloc_*, B* and L* are the Lama runtime's; they are  *)
(* modelled from their contract.  An object is [kind, tag, cells].         *)
(***************************************************************************)
Obj(kind, tag, cells) == [kind |-> kind, tag |-> tag, cells |-> cells]
IsObj(h, w) == w.t = "hp" /\ w.v >= 1 /\ w.v <= Len(h)
\* whether w addresses a word of the contents of an object
IsCell(h, w) == IsObj(h, w) /\ w.c >= 0 /\ w.c < Len(h[w.v].cells)
UNBOXED(w) == w.t = "int" /\ w.v % 2 = 1
BoolW(b) == IntW(BOX(IF b THEN 1 ELSE 0))

\* the NUL-terminated string at offset position of the string pool
RECURSIVE PoolString(_, _, _)
PoolString(f, b, position) ==
    LET byte == FileByte(f, b.strPool.off + position)
    IN  IF byte <= 0 THEN << >>
        ELSE << IntW(BOX(byte)) >> \o PoolString(f, b, position + 1)

\* LtagHash: a boxed integer that depends on the string only
LtagHash(str) == IF str = << >> THEN BOX(0) ELSE str[1].v

(***************************************************************************)
(* State.                                                                  *)
(***************************************************************************)
VARIABLES
    file,       \* the bytes of the file named by argv[1]
    pc,         \* main's position: "read", "construct", "loop", "exit"
    bytefile,   \* struct Bytefile
    stack,      \* class Stack, with __gc_stack_top and __gc_stack_bottom
    isClosure,  \* Interpreter::isClosure
    heap,       \* the runtime's heap: a sequence of objects
    result,     \* the InterpretResult of the last interpretOne
    out,        \* what was written to std::cout
    exitCode,   \* the process's exit status, -1 while it runs
    ub,         \* "" or the kind of undefined behaviour that has happened
    call        \* the call a frame is built for: the stack before it, its
                \* argument count, closure flag and return value

vars == << file, pc, bytefile, stack, isClosure, heap, result, out, exitCode, ub, call >>

EXIT_SUCCESS == 0
EXIT_FAILURE == 1
\* std::terminate: the process is killed by SIGABRT
EXIT_ABORT == 134

NoBytefile ==
    [ strPool |-> EmptySpan, publicSymbols |-> EmptySpan, bytecode |-> EmptySpan,
      globalAreaSize |-> 0, ip |-> Null, fileLine |-> 0, prevIP |-> Null ]
NoStack ==
    [ innerData |-> [i \in 0 .. (MAX_STACK_SIZE - 1) |-> Undef],
      top |-> 0, bottom |-> 0, begin |-> 0, bp |-> Null, nArgs |-> 2, nLocals |-> 0,
      globalsSize |-> 0, oob |-> FALSE ]

NoCall == [stack |-> NoStack, a |-> 0, cl |-> FALSE, retval |-> Null]

InitWith(files) ==
    /\ file \in files
    /\ pc = "read"
    /\ bytefile = NoBytefile
    /\ stack = NoStack
    /\ isClosure = FALSE
    /\ heap = << >>
    /\ result = "Continue"
    /\ out = << >>
    /\ exitCode = -1
    /\ ub = ""
    /\ call = NoCall

(***************************************************************************)
(* main (Main.cpp:262-302)                                                 *)
(***************************************************************************)
\* auto possibleBytefile = Bytefile::readBytefile(file); a file shorter than
\* the header makes copyValues read outside the buffer
HeaderField(k) == copyValues(file, SizeofI32 * k)
ReadBytefile ==
    /\ pc = "read" /\ ub = ""
    /\ IF Len(file) < headerSize
       THEN /\ ub' = "file"
            /\ UNCHANGED << pc, bytefile, exitCode >>
       ELSE LET r == readBytefile(Len(file), HeaderField(0), HeaderField(1),
                                  HeaderField(2))
            IN  /\ ub' = ub
                /\ IF r.errors > 0
                   THEN /\ pc' = "exit"
                        /\ exitCode' = EXIT_FAILURE
                        /\ UNCHANGED bytefile
                   ELSE /\ pc' = "construct"
                        /\ bytefile' = [ strPool |-> r.strPool,
                                         publicSymbols |-> r.publicSymbols,
                                         bytecode |-> r.bytecode,
                                         globalAreaSize |-> r.globalAreaSize,
                                         ip |-> CodePtr(0), fileLine |-> 0,
                                         prevIP |-> Null ]
                        /\ UNCHANGED exitCode
    /\ UNCHANGED << file, stack, isClosure, heap, result, out, call >>

\* Interpreter interpreter {bytefile.globalAreaSize};
Construct ==
    /\ pc = "construct" /\ ub = ""
    /\ stack' = StackCtor(bytefile.globalAreaSize)
    /\ ub' = IF stack'.oob THEN "stack" ELSE ""
    /\ pc' = "loop"
    /\ UNCHANGED << file, bytefile, isClosure, heap, result, out, exitCode, call >>

\* the loop has ended: the diagnostic is printed for ERROR and control
\* reaches the end of main's try block
MainReturn ==
    /\ pc = "loop" /\ ub = "" /\ result # "Continue"
    /\ pc' = "exit"
    /\ exitCode' = EXIT_SUCCESS
    /\ UNCHANGED << file, bytefile, stack, isClosure, heap, result, out, ub, call >>

(***************************************************************************)
(* The reader alone, on every header and file size within the bounds.      *)
(***************************************************************************)
Zeros(n) == [i \in 1 .. n |-> 0]
HeaderFiles ==
    { U32LE(sp) \o U32LE(1) \o U32LE(ps) \o Zeros(n - headerSize) :
        sp \in U32, ps \in U32, n \in headerSize .. MaxFileSize }

SpecReader == InitWith(HeaderFiles) /\ [][ReadBytefile]_vars

(***************************************************************************)
(* C4                                                                      *)
(***************************************************************************)
\* the bytes [off, off + n) of a view
ViewInBuffer(off, n) == off >= 0 /\ off + n <= Len(file)
Disjoint(off1, n1, off2, n2) == n1 = 0 \/ n2 = 0 \/ off1 + n1 <= off2 \/ off2 + n2 <= off1
ViewsWellFormed ==
    LET ps == bytefile.publicSymbols
        sp == bytefile.strPool
        bc == bytefile.bytecode
    IN  /\ bc.size > 0
        /\ ViewInBuffer(ps.off, SizeofI32 * ps.size)
        /\ ViewInBuffer(sp.off, sp.size)
        /\ ViewInBuffer(bc.off, bc.size)
        /\ Disjoint(ps.off, SizeofI32 * ps.size, sp.off, sp.size)
        /\ Disjoint(ps.off, SizeofI32 * ps.size, bc.off, bc.size)
        /\ Disjoint(sp.off, sp.size, bc.off, bc.size)
        /\ Disjoint(0, headerSize, bc.off, bc.size)
DeclaredRegionsFit ==
    headerSize + 8 * HeaderField(2) + HeaderField(0) < Len(file)

\* C4: for every file of at least 12 bytes, readBytefile returns a Bytefile
\* only if 12 + 8 * public_symbols_count + string_pool_size, computed without
\* wrap-around, is less than the file size, and then the three views are
\* pairwise disjoint sub-ranges of the buffer and the bytecode view is not
\* empty; in every other case it returns diagnostics.
C4_ReaderAcceptsOnlyFittingFiles ==
    (Len(file) >= headerSize /\ pc # "read") =>
        /\ pc = "construct" => (DeclaredRegionsFit /\ ViewsWellFormed)
        /\ ~DeclaredRegionsFit => (pc = "exit" /\ exitCode = EXIT_FAILURE)

(***************************************************************************)
(* class Interpreter (Interpreter.cpp:296-701).  A handler is applied to   *)
(* the machine m = [bytefile, stack, isClosure, heap, result, out, ub,     *)
(* exit] and yields the set of machines it can leave: one, unless it reads *)
(* input or converts a pointer or an indeterminate value to an integer.    *)
(***************************************************************************)
Err(m) == [m EXCEPT !.result = "Error"]
\* the step did something undefined: kind says what
Undefined(m, kind) == [m EXCEPT !.ub = IF m.ub = "" THEN kind ELSE m.ub]
WithStack(m, s) == [m EXCEPT !.stack = s]
Pushed(m, w) == [m EXCEPT !.stack = push(m.stack, w)]

\* the integers Lread can return
Inputs == {0, 1}

\* *ref for a reference returned by getReference
Deref(m, ref) ==
    CASE ref.t = "sp" -> Load(m.stack, ref.v)
      [] IsCell(m.heap, ref) -> m.heap[ref.v].cells[ref.c + 1]
      [] OTHER -> Undef
DerefDefined(m, ref) ==
    \/ ref.t = "sp" /\ InArray(ref.v)
    \/ IsCell(m.heap, ref)
\* *ref = w
Assign(m, ref, w) ==
    CASE ref.t = "sp" -> [m EXCEPT !.stack = Store(m.stack, ref.v, w)]
      [] IsCell(m.heap, ref) -> [m EXCEPT !.heap[ref.v].cells[ref.c + 1] = w]
      [] OTHER -> Undefined(m, "wild")

\* Interpreter::onBegin
onBegin(m, nArgs, nLocals) ==
    LET r == prologue(m.stack, nArgs, nLocals)
    IN  IF ~r.ok THEN {Err(m)} ELSE {WithStack(m, r.s)}

\* Interpreter::onCallLRead
onCallLRead(m) ==
    IF ~enoughToPush(m.stack, 1) THEN {Err(m)}
    ELSE {Pushed(m, IntW(BOX(n))) : n \in Inputs}

\* Interpreter::onLine
onLine(m, line) == {m}

\* Interpreter::onStore
onStore(m, index, toSave) ==
    IF ~enoughToPop(m.stack, 1) THEN {Err(m)}
    ELSE LET res == getReference(m.stack, index, toSave)
         IN  IF res.t = "none" THEN {Err(m)}
             ELSE {Assign(WithStack(m, Touch(m.stack, m.stack.top + 1)), res,
                          topWord(m.stack))}

\* Interpreter::onDrop
onDrop(m) ==
    IF ~enoughToPop(m.stack, 1) THEN {Err(m)} ELSE {WithStack(m, pop(m.stack))}

\* Interpreter::onLoad
onLoad(m, index, toLoad) ==
    LET ref == getReference(m.stack, index, toLoad)
    IN  IF ref.t = "none" THEN {Err(m)}
        ELSE IF ~enoughToPush(m.stack, 1) THEN {Err(m)}
        ELSE IF ~DerefDefined(m, ref) THEN {Undefined(Pushed(m, Undef), "wild")}
        ELSE {Pushed(m, Deref(m, ref))}

\* C++ integer division and remainder truncate toward zero
Abs(x) == IF x < 0 THEN 0 - x ELSE x
TruncDiv(a, b) == IF (a < 0) = (b < 0) THEN Abs(a) \div Abs(b) ELSE 0 - (Abs(a) \div Abs(b))
TruncRem(a, b) == a - b * TruncDiv(a, b)
Bool01(b) == IF b THEN 1 ELSE 0

\* result = lhs op rhs for the i32 lhs and rhs
binop(operation, lhs, rhs) ==
    CASE operation = BINOP_add -> ToI32(lhs + rhs)
      [] operation = BINOP_sub -> ToI32(lhs - rhs)
      [] operation = BINOP_mul -> ToI32(lhs * rhs)
      [] operation = BINOP_div -> TruncDiv(lhs, rhs)
      [] operation = BINOP_rem -> TruncRem(lhs, rhs)
      [] operation = BINOP_lt -> Bool01(lhs < rhs)
      [] operation = BINOP_le -> Bool01(lhs <= rhs)
      [] operation = BINOP_gt -> Bool01(lhs > rhs)
      [] operation = BINOP_ge -> Bool01(lhs >= rhs)
      [] operation = BINOP_eq -> Bool01(lhs = rhs)
      [] operation = BINOP_ne -> Bool01(lhs # rhs)
      [] operation = BINOP_and -> Bool01(lhs # 0 /\ rhs # 0)
      [] operation = BINOP_or -> Bool01(lhs # 0 \/ rhs # 0)

\* lhs op rhs has no defined i32 result: a zero divisor, or a product that
\* overflows the i32
ArithUndefined(operation, lhs, rhs) ==
    \/ operation \in {BINOP_div, BINOP_rem} /\ rhs = 0
    \/ operation = BINOP_mul /\ ToI32(lhs * rhs) # lhs * rhs

\* an onBinOp that takes the word popped first for the left operand
onBinOp_LeftPoppedFirst(m, operation) ==
    IF ~enoughToPop(m.stack, 2) THEN {Err(m)}
    ELSE LET lhsWord == popped(m.stack)
             s1 == pop(m.stack)
             rhsWord == popped(s1)
             s2 == pop(s1)
         IN  { IF ArithUndefined(operation, UNBOX(l), UNBOX(r))
               THEN Undefined(WithStack(m, s2), "arith")
               ELSE WithStack(m, push(s2, IntW(BOX(binop(operation, UNBOX(l), UNBOX(r)))))) :
               l \in IntOf(lhsWord), r \in IntOf(rhsWord) }

\* Interpreter::onBinOp
onBinOp(m, operation) ==
    IF ~enoughToPop(m.stack, 2) THEN {Err(m)}
    ELSE LET rhsWord == popped(m.stack)
             s1 == pop(m.stack)
             lhsWord == popped(s1)
             s2 == pop(s1)
         IN  { IF ArithUndefined(operation, UNBOX(l), UNBOX(r))
               THEN Undefined(WithStack(m, s2), "arith")
               ELSE WithStack(m, push(s2, IntW(BOX(binop(operation, UNBOX(l), UNBOX(r)))))) :
               l \in IntOf(lhsWord), r \in IntOf(rhsWord) }

\* an onConst that pushes the value as it is, not boxed
onConst_Unboxed(m, value) ==
    IF ~enoughToPush(m.stack, 1) THEN {Err(m)} ELSE {Pushed(m, IntW(value))}

\* Interpreter::onConst
onConst(m, value) ==
    IF ~enoughToPush(m.stack, 1) THEN {Err(m)} ELSE {Pushed(m, IntW(BOX(value)))}

\* Interpreter::onCallLWrite
onCallLWrite(m) ==
    IF ~enoughToPop(m.stack, 1) THEN {Err(m)}
    ELSE { [m EXCEPT !.out = Append(m.out, UNBOX(x)),
                     !.stack = push(pop(m.stack), IntW(BOX(0)))] :
           x \in IntOf(popped(m.stack)) }

\* Interpreter::onEndOrRet: the outcomes [ret, m], ret the u8* it returns
onEndOrRet(m) ==
    IF m.stack.bp # StackPtr(m.stack.begin - 1)
    THEN { [ret |-> e.ret, m |-> [m EXCEPT !.stack = e.s, !.isClosure = FALSE]] :
           e \in epilogue(m.stack, m.isClosure) }
    ELSE { [ret |-> Null, m |-> [m EXCEPT !.isClosure = FALSE]] }

\* Interpreter::onJump
onJump(jumpLocation) == jumpLocation

\* an onCondJump that jumps on zero whatever the opcode is
onCondJump_AlwaysOnZero(m, isNotEq, jumpLocation, originalAddress) ==
    IF ~enoughToPop(m.stack, 1) THEN {[has |-> FALSE, addr |-> 0, m |-> m]}
    ELSE { [has |-> TRUE,
            addr |-> IF UNBOX(x) = 0 THEN jumpLocation ELSE originalAddress,
            m |-> WithStack(m, pop(m.stack))] :
           x \in IntOf(popped(m.stack)) }

\* Interpreter::onCondJump: the outcomes [has, addr, m] (has = FALSE is nullopt)
onCondJump(m, isNotEq, jumpLocation, originalAddress) ==
    IF ~enoughToPop(m.stack, 1) THEN {[has |-> FALSE, addr |-> 0, m |-> m]}
    ELSE { [has |-> TRUE,
            addr |-> IF (UNBOX(x) = 0 /\ ~isNotEq) \/ (UNBOX(x) # 0 /\ isNotEq)
                     THEN jumpLocation ELSE originalAddress,
            m |-> WithStack(m, pop(m.stack))] :
           x \in IntOf(popped(m.stack)) }

\* an onCall that pushes the address of the CALL itself as return address
onCall_ReturnsToCall(m, location, nArgs, originalIP) ==
    IF ~enoughToPush(m.stack, 1) THEN [has |-> FALSE, addr |-> 0, m |-> m]
    ELSE [has |-> TRUE, addr |-> location, m |-> Pushed(m, m.bytefile.prevIP)]

\* Interpreter::onCall: [has, addr, m]
onCall(m, location, nArgs, originalIP) ==
    IF ~enoughToPush(m.stack, 1) THEN [has |-> FALSE, addr |-> 0, m |-> m]
    ELSE [has |-> TRUE, addr |-> location, m |-> Pushed(m, originalIP)]

\* Interpreter::onDuplicate
onDuplicate(m) ==
    IF ~enoughToPop(m.stack, 1) THEN {Err(m)}
    ELSE IF ~enoughToPush(m.stack, 1) THEN {Err(m)}
    ELSE {WithStack(m, push(Touch(m.stack, m.stack.top + 1), topWord(m.stack)))}

\* Interpreter::onLoadAccumulator
onLoadAccumulator(m, index, toLoad) ==
    LET ref == getReference(m.stack, index, toLoad)
    IN  IF ref.t = "none" THEN {Err(m)}
        ELSE IF ~enoughToPush(m.stack, 2) THEN {Err(m)}
        ELSE {Pushed(Pushed(m, ref), ref)}

\* Interpreter::onCallClosure: [has, addr, m]; addr is the word *ptr read
\* through the closure pointer found at top + 1 + nArgs
onCallClosure(m, returnAddress, nArgs) ==
    IF ~enoughToPush(m.stack, 1) THEN {[has |-> FALSE, addr |-> 0, m |-> m]}
    ELSE LET slot == m.stack.top + 1 + nArgs
             ptr == closureSlot(m.stack, nArgs)
             defined == InArray(slot) /\ DerefDefined(m, ptr)
             m1 == [Pushed(m, returnAddress) EXCEPT !.isClosure = TRUE]
         IN  { [has |-> TRUE, addr |-> a,
                m |-> IF defined THEN m1 ELSE Undefined(m1, "wild")] :
               a \in IntOf(Deref(m, ptr)) }

\* Interpreter::onSwap
onSwap(m) ==
    IF ~enoughToPop(m.stack, 2) THEN {Err(m)}
    ELSE LET first == popped(m.stack)
             s1 == pop(m.stack)
             second == popped(s1)
             s2 == pop(s1)
         IN  {WithStack(m, push(push(s2, first), second))}

\* Interpreter::onFail
onFail(m) ==
    IF ~enoughToPop(m.stack, 2) THEN {Err(m)}
    ELSE {Err(WithStack(m, pop(pop(m.stack))))}

(***************************************************************************)
(* Handlers that call the runtime.  A handler that allocates has no        *)
(* outcome once the heap holds MaxHeap objects.                            *)
(***************************************************************************)
\* a pointer to an object as the runtime takes it: to its contents, or to
\* the tag word before them (what onSexp pushes)
SexpTagCell == 0 - 1
IsObjRef(h, w) == IsObj(h, w) /\ w.c \in {0, SexpTagCell}
CanAlloc(m) == Len(m.heap) < MaxHeap
\* the heap after alloc_* returned obj; top is __gc_stack_top, the low end of
\* the root window, as the allocator found it when it was called
Allocated(m, obj) ==
    [m EXCEPT !.heap = Append(m.heap, [kind |-> obj.kind, tag |-> obj.tag,
                                       cells |-> obj.cells, top |-> m.stack.top])]
NewPtr(m) == HeapPtr(Len(m.heap) + 1, 0)

\* Interpreter::onString
onString(m, str) ==
    IF ~enoughToPush(m.stack, 1) THEN {Err(m)}
    ELSE IF ~CanAlloc(m) THEN {}
    ELSE {Pushed(Allocated(m, Obj("string", 0, str)), NewPtr(m))}

\* Interpreter::onCallLLength
onCallLLength(m) ==
    IF ~enoughToPop(m.stack, 1) THEN {Err(m)}
    ELSE LET val == popped(m.stack)
             m1 == WithStack(m, pop(m.stack))
         IN  IF IsObjRef(m.heap, val)
             THEN {Pushed(m1, IntW(BOX(Len(m.heap[val.v].cells))))}
             ELSE {Undefined(m1, "runtime")}

\* Interpreter::onElem
onElem(m) ==
    IF ~enoughToPop(m.stack, 2) THEN {Err(m)}
    ELSE LET index == popped(m.stack)
             s1 == pop(m.stack)
             valToPtr == popped(s1)
             m1 == WithStack(m, pop(s1))
         IN  IF /\ IsObjRef(m.heap, valToPtr) /\ UNBOXED(index)
                /\ UNBOX(index.v) >= 0
                /\ UNBOX(index.v) < Len(m.heap[valToPtr.v].cells)
             THEN {Pushed(m1, m.heap[valToPtr.v].cells[UNBOX(index.v) + 1])}
             ELSE {Undefined(m1, "runtime")}

\* Interpreter::onSTA
onSTA(m) ==
    IF ~enoughToPop(m.stack, 3) THEN {Err(m)}
    ELSE LET valuePtr == popped(m.stack)
             s1 == pop(m.stack)
             i == popped(s1)
             s2 == pop(s1)
             xPtr == popped(s2)
             m1 == WithStack(m, pop(s2))
         IN  IF UNBOXED(i)
             THEN IF /\ IsObjRef(m.heap, xPtr)
                     /\ UNBOX(i.v) >= 0
                     /\ UNBOX(i.v) < Len(m.heap[xPtr.v].cells)
                  THEN {Pushed([m1 EXCEPT !.heap[xPtr.v].cells[UNBOX(i.v) + 1] = valuePtr],
                               valuePtr)}
                  ELSE {Undefined(m1, "runtime")}
             ELSE LET m2 == Assign(m1, xPtr, valuePtr)
                  IN  {Pushed(m2, valuePtr)}

\* the n topmost words, the deepest first (contents[n - 1] is the first popped)
PoppedCells(s, n) == [k \in 1 .. n |-> Load(s, s.top + 1 + n - k)]
\* n times pop()
popN(s, n) ==
    [s EXCEPT !.top = s.top + n,
              !.oob = s.oob \/ (n > 0 /\ (~InArray(s.top + 1) \/ ~InArray(s.top + n)))]

\* Interpreter::onCallBArray
onCallBArray(m, n) ==
    IF ~enoughToPop(m.stack, n) THEN {Err(m)}
    ELSE IF ~CanAlloc(m) THEN {}
    ELSE LET m1 == Allocated(m, Obj("array", 0, PoppedCells(m.stack, n)))
         IN  {Pushed(WithStack(m1, popN(m.stack, n)), NewPtr(m))}

\* Interpreter::onSexp
onSexp(m, tag, n) ==
    IF ~enoughToPop(m.stack, n) THEN {Err(m)}
    ELSE IF ~CanAlloc(m) THEN {}
    ELSE LET m1 == Allocated(m, Obj("sexp", UNBOX(LtagHash(tag)), PoppedCells(m.stack, n)))
         IN  {Pushed(WithStack(m1, popN(m.stack, n)), HeapPtr(Len(m.heap) + 1, SexpTagCell))}

\* a runtime predicate on the popped word d: BOX(0) for an unboxed d, the
\* test on the object for an object, undefined for any other bit pattern
Predicate(m, d, holds) ==
    IF UNBOXED(d) THEN {Pushed(m, BoolW(FALSE))}
    ELSE IF IsObjRef(m.heap, d) THEN {Pushed(m, BoolW(holds))}
    ELSE {Undefined(m, "runtime")}
KindOf(m, d) == IF IsObjRef(m.heap, d) THEN m.heap[d.v].kind ELSE "none"

\* Interpreter::onTag
onTag(m, name, n) ==
    IF ~enoughToPop(m.stack, 1) THEN {Err(m)}
    ELSE LET d == popped(m.stack)
             m1 == WithStack(m, pop(m.stack))
         IN  Predicate(m1, d, /\ KindOf(m, d) = "sexp"
                              /\ m.heap[d.v].tag = UNBOX(LtagHash(name))
                              /\ Len(m.heap[d.v].cells) = UNBOX(BOX(n)))

\* Interpreter::onArray
onArray(m, size) ==
    IF ~enoughToPop(m.stack, 1) THEN {Err(m)}
    ELSE LET d == popped(m.stack)
             m1 == WithStack(m, pop(m.stack))
         IN  Predicate(m1, d, /\ KindOf(m, d) = "array"
                              /\ Len(m.heap[d.v].cells) = UNBOX(BOX(size)))

\* Interpreter::onCallLString
onCallLString(m) ==
    IF ~enoughToPop(m.stack, 1) THEN {Err(m)}
    ELSE IF ~CanAlloc(m) THEN {}
    ELSE LET d == popped(m.stack)
             m1 == WithStack(m, pop(m.stack))
         IN  IF UNBOXED(d) \/ IsObjRef(m.heap, d)
             THEN {Pushed(Allocated(m1, Obj("string", 0, << >>)), NewPtr(m))}
             ELSE {Undefined(m1, "runtime")}

\* enum class PatternType
PatternStr == 0
PatternString == 1
PatternArray == 2
PatternSexp == 3
PatternBoxed == 4
PatternUnboxed == 5
PatternClosure == 6

\* Interpreter::onPattern
onPattern(m, pattern) ==
    IF ~enoughToPop(m.stack, 1) THEN {Err(m)}
    ELSE IF pattern = PatternStr
    THEN IF ~enoughToPop(m.stack, 1) THEN {Err(m)}
         ELSE LET lhs == popped(m.stack)
                  s1 == pop(m.stack)
                  rhs == popped(s1)
                  m1 == WithStack(m, pop(s1))
              IN  IF UNBOXED(lhs) \/ UNBOXED(rhs) THEN {Pushed(m1, BoolW(FALSE))}
                  ELSE IF IsObjRef(m.heap, lhs) /\ IsObjRef(m.heap, rhs)
                  THEN {Pushed(m1, BoolW(/\ KindOf(m, lhs) = "string"
                                         /\ KindOf(m, rhs) = "string"
                                         /\ m.heap[lhs.v].cells = m.heap[rhs.v].cells))}
                  ELSE {Undefined(m1, "runtime")}
    ELSE LET val == popped(m.stack)
             m1 == WithStack(m, pop(m.stack))
         IN  CASE pattern = PatternString -> Predicate(m1, val, KindOf(m, val) = "string")
               [] pattern = PatternArray -> Predicate(m1, val, KindOf(m, val) = "array")
               [] pattern = PatternSexp -> Predicate(m1, val, KindOf(m, val) = "sexp")
               [] pattern = PatternClosure -> Predicate(m1, val, KindOf(m, val) = "closure")
               [] pattern = PatternBoxed ->
                    {Pushed(m1, BoolW(x % 2 = 0)) : x \in IntOf(val)}
               [] pattern = PatternUnboxed ->
                    {Pushed(m1, BoolW(x % 2 = 1)) : x \in IntOf(val)}
               [] OTHER -> {Pushed(m1, IntW(0))}

\* the capture descriptors of CLOSURE: ClosureArg k (0-based) of the span
\* that starts at code offset first
ArgInBuffer(f, b, first, k) ==
    LET at == b.bytecode.off + first + 5 * k
    IN  at >= 0 /\ at + 5 <= Len(f)
ArgType(f, b, first, k) == FileByte(f, b.bytecode.off + first + 5 * k)
ArgIndex(f, b, first, k) == copyValues(f, b.bytecode.off + first + 5 * k + 1)

\* a capture loop that stores the variable's address in place of its value
RECURSIVE capture_ByReference(_, _, _, _, _, _)
capture_ByReference(f, m, first, k, n, cells) ==
    IF k >= n
    THEN Pushed(Allocated(m, Obj("closure", 0, cells)), NewPtr(m))
    ELSE IF ~ArgInBuffer(f, m.bytefile, first, k)
    THEN Undefined(m, "code")
    ELSE LET res == getReference(m.stack, ArgIndex(f, m.bytefile, first, k),
                                 ArgType(f, m.bytefile, first, k))
         IN  IF res.t = "none" THEN Err(Allocated(m, Obj("closure", 0, cells)))
             ELSE IF ~DerefDefined(m, res) THEN Undefined(m, "wild")
             ELSE capture_ByReference(f, m, first, k + 1, n, Append(cells, res))

\* the loop of onClosure from descriptor k on; cells are the contents so far
RECURSIVE capture(_, _, _, _, _, _)
capture(f, m, first, k, n, cells) ==
    IF k >= n
    THEN Pushed(Allocated(m, Obj("closure", 0, cells)), NewPtr(m))
    ELSE IF ~ArgInBuffer(f, m.bytefile, first, k)
    THEN Undefined(m, "code")
    ELSE LET res == getReference(m.stack, ArgIndex(f, m.bytefile, first, k),
                                 ArgType(f, m.bytefile, first, k))
         IN  IF res.t = "none" THEN Err(Allocated(m, Obj("closure", 0, cells)))
             ELSE IF ~DerefDefined(m, res) THEN Undefined(m, "wild")
             ELSE capture(f, m, first, k + 1, n, Append(cells, Deref(m, res)))

\* Interpreter::onClosure; args is the span of n descriptors at code offset
\* first.  alloc_closure may return a null pointer.
onClosure(f, m, addr, first, n) ==
    IF ~enoughToPush(m.stack, 1) THEN {Err(m)}
    ELSE IF ~CanAlloc(m) THEN {}
    ELSE {m, capture(f, m, first, 0, n, << IntW(addr) >>)}

(***************************************************************************)
(* interpretOne (Main.cpp:20-258).  Each case is applied to the machine    *)
(* after getNextCode and yields the machines the step can leave.  f is the *)
(* file buffer the views point into.                                       *)
(***************************************************************************)
InBuffer(f, at, n) == at >= 0 /\ at + n <= Len(f)

\* Bytefile::getNextCode: prevIP = ip; ip++
getNextCode(m) ==
    [m EXCEPT !.bytefile.prevIP = m.bytefile.ip,
              !.bytefile.ip = CodePtr(m.bytefile.ip.v + 1)]

\* a peekNextCode that finds BEGIN at every address
peekNextCode_AlwaysBegin(f, b) == BEGIN

\* Bytefile::peekNextCode
peekNextCode(f, b) == CodeByte(f, b, b.ip.v)

\* Bytefile::getNextUnsigned: the outcomes [val, m].  Four bytes that are
\* not all in the buffer are an undefined read: any value.
getNextUnsigned(f, m) ==
    LET at == m.bytefile.bytecode.off + m.bytefile.ip.v
        m1 == [m EXCEPT !.bytefile.ip = CodePtr(m.bytefile.ip.v + SizeofI32)]
    IN  IF InBuffer(f, at, SizeofI32)
        THEN {[val |-> copyValues(f, at), m |-> m1]}
        ELSE {[val |-> v, m |-> Undefined(m1, "code")] : v \in U32}

\* Bytefile::getNextInt
getNextInt(f, m) ==
    {[val |-> ToI32(r.val), m |-> r.m] : r \in getNextUnsigned(f, m)}

\* Bytefile::getString: whether position names a string of the pool
getString(b, position) == position < b.strPool.size

\* Bytefile::getNextString: the outcomes [has, str, m]
getNextString(f, m) ==
    IF ~enoughBytes(m.bytefile, SizeofI32)
    THEN {[has |-> FALSE, str |-> << >>, m |-> m]}
    ELSE { IF getString(r.m.bytefile, r.val)
           THEN [has |-> TRUE, str |-> PoolString(f, r.m.bytefile, r.val), m |-> r.m]
           ELSE [has |-> FALSE, str |-> << >>, m |-> r.m] :
           r \in getNextUnsigned(f, m) }

\* Bytefile::closureArray: ip += (sizeof(i8) + sizeof(u32)) * n
closureArray(m, n) ==
    [m EXCEPT !.bytefile.ip = CodePtr(m.bytefile.ip.v + 5 * n)]

\* checkEnoughBytes(sizeof(u32)) and the step's one u32 operand: the
\* outcomes [ok, val, m]; ~ok is the step's return of Error
Checked1(f, m) ==
    IF ~enoughBytes(m.bytefile, SizeofI32)
    THEN {[ok |-> FALSE, val |-> 0, m |-> Err(m)]}
    ELSE {[ok |-> TRUE, val |-> r.val, m |-> r.m] : r \in getNextUnsigned(f, m)}

\* checkEnoughBytes(sizeof(u32) * 2) and the step's two u32 operands: the
\* outcomes [ok, val1, val2, m]
Checked2(f, m) ==
    IF ~enoughBytes(m.bytefile, SizeofI32 * 2)
    THEN {[ok |-> FALSE, val1 |-> 0, val2 |-> 0, m |-> Err(m)]}
    ELSE UNION { {[ok |-> TRUE, val1 |-> r1.val, val2 |-> r2.val, m |-> r2.m] :
                  r2 \in getNextUnsigned(f, r1.m)} :
                 r1 \in getNextUnsigned(f, m) }

Stop(m) == [m EXCEPT !.result = "Stop"]
\* std::terminate
Terminate(m) == [m EXCEPT !.exit = EXIT_ABORT]

caseConst(f, code, m) ==
    IF ~enoughBytes(m.bytefile, SizeofI32) THEN {Err(m)}
    ELSE UNION { onConst(r.m, r.val) : r \in getNextInt(f, m) }

caseString(f, code, m) ==
    UNION { IF ~val.has THEN {Err(val.m)} ELSE onString(val.m, val.str) :
            val \in getNextString(f, m) }

caseSexp(f, code, m) ==
    UNION { IF ~tag.has THEN {Err(tag.m)}
            ELSE UNION { IF ~n.ok THEN {n.m} ELSE onSexp(n.m, tag.str, n.val) :
                         n \in Checked1(f, tag.m) } :
            tag \in getNextString(f, m) }

caseJmp(f, code, m) ==
    { IF ~toJump.ok THEN toJump.m
      ELSE LET r == trySetAddress(toJump.m.bytefile, onJump(toJump.val))
           IN  IF ~r.ok THEN Err(toJump.m) ELSE [toJump.m EXCEPT !.bytefile = r.b] :
      toJump \in Checked1(f, m) }

\* bytefile.ip = nextCode; if (!nextCode) return STOP
caseEndOrRet(f, code, m) ==
    UNION { LET m1 == [e.m EXCEPT !.bytefile.ip = e.ret]
            IN  CASE e.ret.t = "int" -> IF e.ret.v = 0 THEN {Stop(m1)} ELSE {m1}
                  [] e.ret.t = "undef" -> {Stop(m1), m1}
                  [] OTHER -> {m1} :
            e \in onEndOrRet(m) }

caseLd(f, code, m) ==
    UNION { IF ~idx.ok THEN {idx.m} ELSE onLoad(idx.m, idx.val, LowNibble(code)) :
            idx \in Checked1(f, m) }

caseLda(f, code, m) ==
    UNION { IF ~idx.ok THEN {idx.m}
            ELSE onLoadAccumulator(idx.m, idx.val, LowNibble(code)) :
            idx \in Checked1(f, m) }

caseSt(f, code, m) ==
    UNION { IF ~idx.ok THEN {idx.m} ELSE onStore(idx.m, idx.val, LowNibble(code)) :
            idx \in Checked1(f, m) }

\* trySetAddr(action, address)
trySetAddr(m, addr) ==
    LET r == trySetAddress(m.bytefile, addr)
    IN  IF ~r.ok THEN Err(m) ELSE [m EXCEPT !.bytefile = r.b]

caseCJmp(f, code, m) ==
    UNION { IF ~jumpLocation.ok THEN {jumpLocation.m}
            ELSE { IF ~jump.has THEN Err(jump.m) ELSE trySetAddr(jump.m, jump.addr) :
                   jump \in onCondJump(jumpLocation.m, LowNibble(code) % 2 = 1,
                                       jumpLocation.val,
                                       address(jumpLocation.m.bytefile)) } :
            jumpLocation \in Checked1(f, m) }

caseBegin(f, code, m) ==
    UNION { IF ~r.ok THEN {r.m} ELSE onBegin(r.m, r.val1, r.val2) :
            r \in Checked2(f, m) }

caseClosure(f, code, m) ==
    UNION { IF ~r.ok THEN {r.m}
            ELSE onClosure(f, closureArray(r.m, r.val2), r.val1, r.m.bytefile.ip.v,
                           r.val2) :
            r \in Checked2(f, m) }

caseCallC(f, code, m) ==
    UNION { IF ~nArgs.ok THEN {nArgs.m}
            ELSE { IF ~closureAddress.has THEN Err(closureAddress.m)
                   ELSE LET m2 == trySetAddr(closureAddress.m, closureAddress.addr)
                        IN  IF m2.result = "Error" THEN m2
                            ELSE IF peekNextCode(f, m2.bytefile) \notin {CBEGIN, BEGIN}
                            THEN Err(m2)
                            ELSE m2 :
                   closureAddress \in
                       onCallClosure(nArgs.m, nArgs.m.bytefile.ip, nArgs.val) } :
            nArgs \in Checked1(f, m) }

caseCall(f, code, m) ==
    { IF ~r.ok THEN r.m
      ELSE LET callAddress == onCall(r.m, r.val1, r.val2, r.m.bytefile.ip)
           IN  IF ~callAddress.has THEN Err(callAddress.m)
               ELSE LET m2 == trySetAddr(callAddress.m, callAddress.addr)
                    IN  IF m2.result = "Error" THEN m2
                        ELSE IF peekNextCode(f, m2.bytefile) # BEGIN THEN Err(m2)
                        ELSE m2 :
      r \in Checked2(f, m) }

\* the operand n is read with no checkEnoughBytes before it
caseTag(f, code, m) ==
    UNION { IF ~name.has THEN {Err(name.m)}
            ELSE UNION { onTag(n.m, name.str, n.val) : n \in getNextUnsigned(f, name.m) } :
            name \in getNextString(f, m) }

\* the operand is read with no checkEnoughBytes before it
caseArray(f, code, m) ==
    UNION { onArray(size.m, size.val) : size \in getNextUnsigned(f, m) }

\* the operand is read with no checkEnoughBytes before it
caseLine(f, code, m) ==
    UNION { onLine([line.m EXCEPT !.bytefile.fileLine = line.val], line.val) :
            line \in getNextUnsigned(f, m) }

\* the operand is read with no checkEnoughBytes before it
caseCallBarray(f, code, m) ==
    UNION { onCallBArray(arg.m, arg.val) : arg \in getNextUnsigned(f, m) }


(***************************************************************************)
(* The loop of main: while ((result = interpretOne(...)) == CONTINUE) {}   *)
(* One action per case of interpretOne's switch.                           *)
(***************************************************************************)
Machine ==
    [ bytefile |-> bytefile, stack |-> stack, isClosure |-> isClosure, heap |-> heap,
      result |-> result, out |-> out, ub |-> ub, exit |-> exitCode ]

\* the step leaves machine o
Update(o) ==
    /\ bytefile' = o.bytefile
    /\ stack' = o.stack
    /\ isClosure' = o.isClosure
    /\ heap' = o.heap
    /\ result' = o.result
    /\ out' = o.out
    /\ ub' = IF o.ub # "" THEN o.ub ELSE IF o.stack.oob THEN "stack" ELSE ""
    /\ exitCode' = o.exit
    /\ UNCHANGED << file, call >>

\* a step of main's loop leaves machine o; std::terminate ends the process
Commit(o) ==
    /\ Update(o)
    /\ pc' = IF o.exit # -1 THEN "exit" ELSE pc

Running == pc = "loop" /\ ub = "" /\ result = "Continue"

\* ip points at a byte of the buffer
IpInBuffer ==
    /\ bytefile.ip.t = "ip"
    /\ InBuffer(file, bytefile.bytecode.off + bytefile.ip.v, 1)

\* the byte getNextCode is about to return
Code == CodeByte(file, bytefile, bytefile.ip.v)

\* checkEnoughBytes(1) fails
DecodeNoBytes ==
    /\ Running
    /\ bytefile.ip.t = "ip"
    /\ ~enoughBytes(bytefile, 1)
    /\ Commit(Err(Machine))

\* checkEnoughBytes(1) is evaluated on, or passes for, an ip that does not
\* point into the buffer
DecodeWild ==
    /\ Running
    /\ ~IpInBuffer
    /\ bytefile.ip.t = "ip" => enoughBytes(bytefile, 1)
    /\ Commit(Undefined(Machine, IF bytefile.ip.t = "ip" THEN "code" ELSE "ip"))

\* checkEnoughBytes(1) passes and getNextCode returns one of codes
Fetches(codes) ==
    /\ Running
    /\ IpInBuffer
    /\ enoughBytes(bytefile, 1)
    /\ Code \in codes

BinOps == BINOP_add .. BINOP_or
Lds == LD_G .. (LD_G + Captured)
Ldas == LDA_G .. (LDA_G + Captured)
Sts == ST_G .. (ST_G + Captured)
Patts == PATT_str .. PATT_fun
Known ==
    BinOps \cup (CONST .. ELEM) \cup Lds \cup Ldas \cup Sts \cup (CJMPz .. LINE)
        \cup Patts \cup (CALL_Lread .. CALL_Barray)

DoBinOp ==
    /\ Fetches(BinOps)
    /\ \E o \in onBinOp(getNextCode(Machine), LowNibble(Code)) : Commit(o)
DoConst ==
    /\ Fetches({CONST})
    /\ \E o \in caseConst(file, Code, getNextCode(Machine)) : Commit(o)
DoString ==
    /\ Fetches({STRING_op})
    /\ \E o \in caseString(file, Code, getNextCode(Machine)) : Commit(o)
DoSexp ==
    /\ Fetches({SEXP})
    /\ \E o \in caseSexp(file, Code, getNextCode(Machine)) : Commit(o)
DoSTI ==
    /\ Fetches({STI})
    /\ \E o \in {Terminate(getNextCode(Machine))} : Commit(o)
DoSTA ==
    /\ Fetches({STA})
    /\ \E o \in onSTA(getNextCode(Machine)) : Commit(o)
DoJmp ==
    /\ Fetches({JMP})
    /\ \E o \in caseJmp(file, Code, getNextCode(Machine)) : Commit(o)
DoEndOrRet ==
    /\ Fetches({END, RET})
    /\ \E o \in caseEndOrRet(file, Code, getNextCode(Machine)) : Commit(o)
DoDrop ==
    /\ Fetches({DROP})
    /\ \E o \in onDrop(getNextCode(Machine)) : Commit(o)
DoDup ==
    /\ Fetches({DUP})
    /\ \E o \in onDuplicate(getNextCode(Machine)) : Commit(o)
DoSwap ==
    /\ Fetches({SWAP})
    /\ \E o \in onSwap(getNextCode(Machine)) : Commit(o)
DoElem ==
    /\ Fetches({ELEM})
    /\ \E o \in onElem(getNextCode(Machine)) : Commit(o)
DoLd ==
    /\ Fetches(Lds)
    /\ \E o \in caseLd(file, Code, getNextCode(Machine)) : Commit(o)
DoLda ==
    /\ Fetches(Ldas)
    /\ \E o \in caseLda(file, Code, getNextCode(Machine)) : Commit(o)
DoSt ==
    /\ Fetches(Sts)
    /\ \E o \in caseSt(file, Code, getNextCode(Machine)) : Commit(o)
DoCJmp ==
    /\ Fetches({CJMPz, CJMPnz})
    /\ \E o \in caseCJmp(file, Code, getNextCode(Machine)) : Commit(o)
DoBegin ==
    /\ Fetches({BEGIN, CBEGIN})
    /\ \E o \in caseBegin(file, Code, getNextCode(Machine)) : Commit(o)
DoClosure ==
    /\ Fetches({CLOSURE})
    /\ \E o \in caseClosure(file, Code, getNextCode(Machine)) : Commit(o)
DoCallC ==
    /\ Fetches({CALLC})
    /\ \E o \in caseCallC(file, Code, getNextCode(Machine)) : Commit(o)
DoCall ==
    /\ Fetches({CALL})
    /\ \E o \in caseCall(file, Code, getNextCode(Machine)) : Commit(o)
DoTag ==
    /\ Fetches({TAG})
    /\ \E o \in caseTag(file, Code, getNextCode(Machine)) : Commit(o)
DoArray ==
    /\ Fetches({ARRAY})
    /\ \E o \in caseArray(file, Code, getNextCode(Machine)) : Commit(o)
DoFail ==
    /\ Fetches({FAIL})
    /\ \E o \in onFail(getNextCode(Machine)) : Commit(o)
DoLine ==
    /\ Fetches({LINE})
    /\ \E o \in caseLine(file, Code, getNextCode(Machine)) : Commit(o)
DoPatt ==
    /\ Fetches(Patts)
    /\ \E o \in onPattern(getNextCode(Machine), LowNibble(Code)) : Commit(o)
DoCallLread ==
    /\ Fetches({CALL_Lread})
    /\ \E o \in onCallLRead(getNextCode(Machine)) : Commit(o)
DoCallLwrite ==
    /\ Fetches({CALL_Lwrite})
    /\ \E o \in onCallLWrite(getNextCode(Machine)) : Commit(o)
DoCallLlength ==
    /\ Fetches({CALL_Llength})
    /\ \E o \in onCallLLength(getNextCode(Machine)) : Commit(o)
DoCallLstring ==
    /\ Fetches({CALL_Lstring})
    /\ \E o \in onCallLString(getNextCode(Machine)) : Commit(o)
DoCallBarray ==
    /\ Fetches({CALL_Barray})
    /\ \E o \in caseCallBarray(file, Code, getNextCode(Machine)) : Commit(o)
DoDefault ==
    /\ Fetches(Byte \ Known)
    /\ \E o \in {Err(getNextCode(Machine))} : Commit(o)

Next ==
    \/ ReadBytefile
    \/ Construct
    \/ MainReturn
    \/ DecodeNoBytes
    \/ DecodeWild
    \/ DoBinOp
    \/ DoConst
    \/ DoString
    \/ DoSexp
    \/ DoSTI
    \/ DoSTA
    \/ DoJmp
    \/ DoEndOrRet
    \/ DoDrop
    \/ DoDup
    \/ DoSwap
    \/ DoElem
    \/ DoLd
    \/ DoLda
    \/ DoSt
    \/ DoCJmp
    \/ DoBegin
    \/ DoClosure
    \/ DoCallC
    \/ DoCall
    \/ DoTag
    \/ DoArray
    \/ DoFail
    \/ DoLine
    \/ DoPatt
    \/ DoCallLread
    \/ DoCallLwrite
    \/ DoCallLlength
    \/ DoCallLstring
    \/ DoCallBarray
    \/ DoDefault

(***************************************************************************)
(* The files main is run on.  A file is header, string pool, bytecode      *)
(* (no public symbols); an instruction is its opcode byte followed by its  *)
(* little-endian operands.                                                 *)
(***************************************************************************)
I0(op) == << op >>
I1(op, a) == << op >> \o U32LE(a)
I2(op, a, b) == << op >> \o U32LE(a) \o U32LE(b)
\* a capture descriptor of CLOSURE: { u8 type; u32 index }
Capture(kind, index) == << kind >> \o U32LE(index)
Cat(A, B) == { a \o b : a \in A, b \in B }

\* the string pool "A\0"
Pool == << 65, 0 >>
MkFile(g, pool, code) == U32LE(Len(pool)) \o U32LE(g) \o U32LE(0) \o pool \o code

\* the number of globals for which the stack is full (top is the array
\* start) after k pushes on the constructed stack
FullAfter(k) == MAX_STACK_SIZE - 3 - k

\* what is executed before the instruction under test
Prefixes ==
    { << >>,
      I2(BEGIN, 2, 0),
      I2(BEGIN, 2, 1),
      I2(BEGIN, 2, 1) \o I1(CONST, 1) \o I1(CONST, 2),
      I2(BEGIN, 2, 1) \o I1(STRING_op, 0),
      I1(STRING_op, 0) \o I1(STRING_op, 0),
      I2(BEGIN, 2, 1) \o I1(CONST, 1) \o I1(CALL_Barray, 1) \o I1(CONST, 0),
      I2(BEGIN, 2, 1) \o I1(CONST, 1) \o I2(SEXP, 0, 1),
      I2(BEGIN, 2, 1) \o I1(CONST, 1) \o I1(CALL_Barray, 1) \o I1(CONST, 0)
          \o I1(CONST, 3),
      I2(BEGIN, 2, 1) \o I1(LDA_G + Local, 0) \o I1(CONST, 3) }

NoOperand ==
    BinOps \cup {STI, STA, END, RET, DROP, DUP, SWAP, ELEM, FAIL}
        \cup Patts \cup (CALL_Lread .. CALL_Lstring)
OneOperand ==
    {CONST, STRING_op, JMP, CJMPz, CJMPnz, CALLC, ARRAY, LINE, CALL_Barray}
        \cup Lds \cup Ldas \cup Sts
TwoOperands == {SEXP, BEGIN, CBEGIN, CLOSURE, CALL, TAG}
Operands == {0, 1, 2, U32Mod - 1}
Unknown == {0, 15, 255}

\* every instruction, with operands from Operands
Instructions ==
    { I0(op) : op \in NoOperand \cup Unknown }
        \cup { I1(op, a) : op \in OneOperand, a \in Operands }
        \cup { I2(op, a, b) : op \in TwoOperands, a \in Operands, b \in Operands }
        \cup { I2(CLOSURE, 0, 1) \o Capture(kind, i) :
                  kind \in {Global, Local, Argument, Captured}, i \in {0, 1} }

\* an instruction cut short: its opcode and fewer operand bytes than it has
Truncated ==
    { << op >> \o Zeros(k) : op \in OneOperand, k \in 0 .. 3 }
        \cup { << op >> \o Zeros(k) : op \in TwoOperands, k \in 0 .. 7 }
        \cup { I2(CLOSURE, 0, n) \o Zeros(k) : n \in 1 .. 2, k \in 0 .. 4 }

Globals == {0, 1, FullAfter(1), FullAfter(0)}

FuzzPrograms ==
    Cat(Cat(Prefixes, Instructions), {<< >>, I0(END)})
        \cup Cat({<< >>, I2(BEGIN, 2, 0)}, Truncated)

\* the outermost frame with every number of locals up to the array's size
FramePrograms ==
    { I2(op, 2, l) \o I0(END) : op \in {BEGIN, CBEGIN}, l \in 0 .. MAX_STACK_SIZE }

\* CONST a; ...; CONST 1: a argument words
RECURSIVE Consts(_)
Consts(a) == IF a <= 0 THEN << >> ELSE I1(CONST, a) \o Consts(a - 1)

\* main pushes a arguments and calls the function behind it, which opens its
\* frame with the opcode callee and returns 5; delta displaces the target
CallProgram(a, l, callee, delta) ==
    LET f == 19 + 5 * a
    IN  I2(BEGIN, 2, 1) \o Consts(a) \o I2(CALL, f + delta, a) \o I0(END)
            \o I2(callee, a, l) \o I1(CONST, 5) \o I0(END)

\* main builds a closure over its local 0 and calls it with a arguments; the
\* closure returns the captured value
ClosureProgram(a, l, callee, delta) ==
    LET f == 29 + 5 * a
    IN  I2(BEGIN, 2, 1) \o I2(CLOSURE, f + delta, 1) \o Capture(Local, 0)
            \o Consts(a) \o I1(CALLC, a) \o I0(END)
            \o I2(callee, a, l) \o I1(LD_G + Captured, 0) \o I0(END)

\* main calls f, f calls g
NestedProgram(l) ==
    I2(BEGIN, 2, 1) \o I2(CALL, 19, 0) \o I0(END)
        \o I2(BEGIN, 0, l) \o I2(CALL, 38, 0) \o I0(END)
        \o I2(BEGIN, 0, l) \o I1(CONST, 5) \o I0(END)

\* a jump over CONST 1 to CONST 2, displaced by delta; c is the condition
JumpProgram(op, c, delta) ==
    I2(BEGIN, 2, 1) \o I1(CONST, c) \o I1(op, 25 + delta) \o I1(CONST, 1) \o I0(END)
        \o I1(CONST, 2) \o I0(END)

MaxArgs == 2
MaxLocals == 2
Callees == {BEGIN, CBEGIN, DROP}
\* the displacements of a target: none, into the operand, to and past the end
CallDeltas == {0, 1, 15, 16}
JumpDeltas == {0, 6, 7}

CallFiles ==
    { MkFile(g, Pool, CallProgram(a, l, callee, delta)) :
        a \in 0 .. MaxArgs, l \in 0 .. MaxLocals, callee \in Callees,
        delta \in CallDeltas, g \in {0, 1} }
      \cup { MkFile(FullAfter(5 + a + k), Pool, CallProgram(a, l, callee, 0)) :
        a \in 0 .. MaxArgs, l \in 0 .. MaxLocals, callee \in Callees, k \in 0 .. 1 }

ClosureFiles ==
    { MkFile(g, Pool, ClosureProgram(a, l, callee, delta)) :
        a \in 0 .. MaxArgs, l \in 0 .. MaxLocals, callee \in Callees,
        delta \in CallDeltas, g \in {0, 1} }
      \cup { MkFile(FullAfter(6 + a + k), Pool, ClosureProgram(a, l, callee, 0)) :
        a \in 0 .. MaxArgs, l \in 0 .. MaxLocals, callee \in Callees, k \in 0 .. 1 }

NestedFiles ==
    { MkFile(g, Pool, NestedProgram(l)) : l \in 0 .. MaxLocals, g \in {0, 1} }

JumpFiles ==
    { MkFile(g, Pool, JumpProgram(op, c, delta)) :
        op \in {JMP, CJMPz, CJMPnz}, c \in {0, 1}, delta \in JumpDeltas, g \in {0, 1} }

\* the instructions of a call of target with the one argument v: a plain
\* CALL, or a closure without captures made and called by CALLC
CallSeq(kind, target, v) ==
    IF kind = CALL THEN I1(CONST, v) \o I2(CALL, target, 1)
    ELSE I2(CLOSURE, target, 0) \o I1(CONST, v) \o I1(CALLC, 1)

\* main calls f, f calls g and returns what g returns; each call is a CALL
\* or a CALLC
TwoCallsProgram(outer, inner) ==
    LET f == 9 + Len(CallSeq(outer, 0, 7)) + 1
        g == f + 9 + Len(CallSeq(inner, 0, 8)) + 1
    IN  I2(BEGIN, 2, 1) \o CallSeq(outer, f, 7) \o I0(END)
            \o I2(BEGIN, 1, 0) \o CallSeq(inner, g, 8) \o I0(END)
            \o I2(BEGIN, 1, 0) \o I1(CONST, 5) \o I0(END)

\* main calls, with no argument, a function that declares d arguments
DeclaredArgsProgram(d) ==
    I2(BEGIN, 2, 1) \o I2(CALL, 19, 0) \o I0(END)
        \o I2(BEGIN, d, 0) \o I1(CONST, 5) \o I0(END)

\* a main that declares a arguments calls a function and returns
WideMainProgram(a) ==
    I2(BEGIN, a, 1) \o I2(CALL, 19, 0) \o I0(END)
        \o I2(BEGIN, 0, 0) \o I1(CONST, 5) \o I0(END)

\* main writes the constant n
WriteProgram(n) ==
    I2(BEGIN, 2, 1) \o I1(CONST, n) \o I0(CALL_Lwrite) \o I0(END)

TwoCallsFiles ==
    { MkFile(g, Pool, TwoCallsProgram(outer, inner)) :
        outer \in {CALL, CALLC}, inner \in {CALL, CALLC}, g \in {0, 1} }

\* the argument counts a BEGIN can declare: few, and those whose boxed form
\* needs more than the word's bits
DeclaredArgs == {0, 1, 2, U32Mod \div 2 - 1, U32Mod \div 2, U32Mod \div 2 + 1, U32Mod - 1}

DeclaredArgsFiles ==
    { MkFile(g, Pool, DeclaredArgsProgram(d)) : d \in DeclaredArgs, g \in {0, 1} }
      \cup { MkFile(g, Pool, WideMainProgram(a)) : a \in DeclaredArgs, g \in {0, 1} }

WriteFiles == { MkFile(0, Pool, WriteProgram(n)) : n \in U32 }

\* global areas as large as the stack array and larger
LargeGlobals == {MAX_STACK_SIZE - 2, MAX_STACK_SIZE - 1, MAX_STACK_SIZE, U32Mod - 1}

\* k DROPs
RECURSIVE Drops(_)
Drops(k) == IF k <= 0 THEN << >> ELSE I0(DROP) \o Drops(k - 1)

\* a pattern test on the constructed stack after k of its words are dropped
PattFiles ==
    { MkFile(g, Pool, Drops(k) \o I0(op)) : k \in 0 .. 2, op \in Patts, g \in {0, 1} }

\* main stores 3 into the variable (kind, i), makes a closure that captures
\* it, stores 4 into the variable and calls the closure; the closure loads
\* its captured cell and stores 9 into it
SnapshotProgram(kind, i, callee) ==
    LET main == I2(BEGIN, 2, 1) \o I1(CONST, 3) \o I1(ST_G + kind, i) \o I0(DROP)
        rest == I1(CONST, 4) \o I1(ST_G + kind, i) \o I0(DROP) \o I1(CALLC, 0) \o I0(END)
        f == Len(main) + 14 + Len(rest)
    IN  main \o I2(CLOSURE, f, 1) \o Capture(kind, i) \o rest
            \o I2(callee, 0, 0) \o I1(LD_G + Captured, 0) \o I0(DROP)
            \o I1(CONST, 9) \o I1(ST_G + Captured, 0) \o I0(END)

\* the captured variable is local 0, argument 1 (the constructor's word at
\* begin) or global 0
SnapshotFiles ==
    { MkFile(1, Pool, SnapshotProgram(v[1], v[2], callee)) :
        v \in {<<Local, 0>>, <<Argument, 1>>, <<Global, 0>>}, callee \in {BEGIN, CBEGIN} }

\* CONST 10; CONST 11; ...: the argument words a_0 = 10, a_1 = 11, ... from
\* the k-th on
RECURSIVE ArgConsts(_, _)
ArgConsts(k, n) == IF k >= n THEN << >> ELSE I1(CONST, 10 + k) \o ArgConsts(k + 1, n)

\* main pushes n arguments and calls (CALL, or CALLC of a closure without
\* captures) a function that declares n arguments and l locals and loads
\* its argument i
ArgsProgram(kind, n, l, i) ==
    LET f == (IF kind = CALL THEN 19 ELSE 24) + 5 * n
    IN  I2(BEGIN, 2, 1)
            \o (IF kind = CALL THEN << >> ELSE I2(CLOSURE, f, 0))
            \o ArgConsts(0, n)
            \o (IF kind = CALL THEN I2(CALL, f, n) ELSE I1(CALLC, n))
            \o I0(END)
            \o I2(BEGIN, n, l) \o I1(LD_G + Argument, i) \o I0(END)

ArgsFiles ==
    { MkFile(g, Pool, ArgsProgram(kind, n, l, i)) :
        kind \in {CALL, CALLC}, n \in 1 .. (MaxArgs + 1), l \in 0 .. 1,
        i \in 0 .. MaxArgs, g \in {0, 1} }

\* main stores 7 into the variable (kind, i) and loads it
StoreLoadProgram(kind, i) ==
    I2(BEGIN, 2, 2) \o I1(CONST, 7) \o I1(ST_G + kind, i) \o I1(LD_G + kind, i) \o I0(END)

StoreLoadFiles ==
    { MkFile(g, Pool, StoreLoadProgram(kind, i)) :
        kind \in {Global, Local, Argument}, i \in 0 .. 2, g \in 0 .. 2 }

\* main pushes and drops words and then opens, on the slots they were in,
\* a frame with l locals and loads its local i
ReusedSlotsProgram(op, l, i) ==
    Consts(MaxLocals + 4) \o Drops(MaxLocals + 4)
        \o I2(op, 2, l) \o I1(LD_G + Local, i) \o I0(END)

ReusedSlotsFiles ==
    { MkFile(g, Pool, ReusedSlotsProgram(op, l, i)) :
        op \in {BEGIN, CBEGIN}, l \in 0 .. MaxLocals, i \in 0 .. MaxLocals, g \in {0, 1} }

\* two constructors of empty objects on a stack with k free words
EmptyObjectsFiles ==
    { MkFile(FullAfter(k), Pool, first \o second) :
        first \in {I1(CALL_Barray, 0), I2(SEXP, 0, 0)},
        second \in {I1(CALL_Barray, 0), I2(SEXP, 0, 0)}, k \in 0 .. 1 }

\* files the reader rejects, and a file shorter than the header
BadFiles ==
    { U32LE(sp) \o U32LE(0) \o U32LE(ps) \o I0(END) :
        sp \in Operands \ {0}, ps \in Operands }
      \cup { << 0, 0 >> }

Files ==
    { MkFile(g, Pool, code) : g \in Globals, code \in FuzzPrograms \cup FramePrograms }
      \cup { MkFile(g, Pool, I0(END)) : g \in LargeGlobals }
      \cup CallFiles \cup ClosureFiles \cup NestedFiles \cup JumpFiles \cup BadFiles
      \cup TwoCallsFiles \cup DeclaredArgsFiles \cup WriteFiles \cup PattFiles
      \cup SnapshotFiles \cup ArgsFiles \cup StoreLoadFiles
      \cup ReusedSlotsFiles \cup EmptyObjectsFiles

Init == InitWith(Files)
Spec == Init /\ [][Next]_vars

(***************************************************************************)
(* One call on the stack alone: prologue, one return value, epilogue, on   *)
(* every stack a caller can leave: the constructed stack, an optional      *)
(* outer frame, an optional operand word, then (for a closure call) the    *)
(* closure pointer, a argument words and the return address.               *)
(***************************************************************************)
RECURSIVE pushArgs(_, _)
pushArgs(s, a) == IF a <= 0 THEN s ELSE pushArgs(push(s, IntW(BOX(a))), a - 1)

TheClosure == Obj("closure", 0, << IntW(0) >>)
Caller(g, outer, operands, cl, a, r) ==
    LET s0 == StackCtor(g)
        s1 == IF outer < 0 THEN s0 ELSE prologue(s0, 2, outer).s
        s2 == IF operands = 0 THEN s1 ELSE push(s1, IntW(BOX(9)))
        s3 == IF cl THEN push(s2, HeapPtr(1, 0)) ELSE s2
    IN  push(pushArgs(s3, a), CodePtr(r))

Calls ==
    { [stack |-> Caller(g, outer, operands, cl, a, r), a |-> a, cl |-> cl, retval |-> w] :
        g \in {0, 1}, outer \in {0 - 1, 0, 1}, operands \in {0, 1}, cl \in BOOLEAN,
        a \in 0 .. MaxArgs, r \in {1, 7}, w \in {IntW(BOX(5)), HeapPtr(1, 0)} }

InitCall ==
    /\ file = << >>
    /\ pc = "called"
    /\ bytefile = NoBytefile
    /\ call \in Calls
    /\ stack = call.stack
    /\ isClosure = call.cl
    /\ heap = << TheClosure >>
    /\ result = "Continue"
    /\ out = << >>
    /\ exitCode = -1
    /\ ub = ""

\* BEGIN a l: Interpreter::onBegin on the called stack
CallBegin ==
    /\ pc = "called" /\ ub = ""
    /\ \E l \in 0 .. MAX_STACK_SIZE :
         \E o \in onBegin(Machine, call.a, l) :
            /\ Update(o)
            /\ pc' = IF o.result = "Error" THEN "failed" ELSE "body"

\* the body leaves one return value: Interpreter::onLoad or onConst pushes it
CallBody ==
    /\ pc = "body" /\ ub = ""
    /\ IF ~enoughToPush(stack, 1)
       THEN Update(Err(Machine)) /\ pc' = "failed"
       ELSE Update(Pushed(Machine, call.retval)) /\ pc' = "end"

\* END: Stack::epilogue with the flag onCallClosure has set
CallEnd ==
    /\ pc = "end" /\ ub = ""
    /\ \E e \in epilogue(stack, isClosure) :
         /\ Update([Machine EXCEPT !.stack = e.s, !.bytefile.ip = e.ret])
         /\ pc' = "returned"

NextCall == CallBegin \/ CallBody \/ CallEnd
SpecCall == InitCall /\ [][NextCall]_vars

\* the words a call with the caller's closure flag takes from the caller's
\* stack: the return address, the arguments and, for a closure call, the
\* closure pointer under them
CallWords == call.a + 1 + (IF call.cl THEN 1 ELSE 0)
\* the frame is gone: counters, the return address and every word below the
\* call's words are the caller's, and the return value is on top
Returned(words) ==
    /\ stack.top = call.stack.top + words - 1
    /\ topWord(stack) = call.retval
    /\ \A i \in (stack.top + 2) .. (MAX_STACK_SIZE - 1) :
          stack.innerData[i] = call.stack.innerData[i]
    /\ stack.bp = call.stack.bp
    /\ stack.nArgs = call.stack.nArgs
    /\ stack.nLocals = call.stack.nLocals
    /\ stack.begin = call.stack.begin
    /\ bytefile.ip = topWord(call.stack)

OperandOf(k) ==
    copyValues(file, bytefile.bytecode.off + bytefile.ip.v + 1 + SizeofI32 * k)
\* the instruction at ip is one of codes and its n u32 operands are in the
\* bytecode
About(codes, n) ==
    /\ Fetches(codes)
    /\ bytefile.ip.v + 1 + SizeofI32 * n <= bytefile.bytecode.size
\* ip after the opcode and n u32 operands
AfterOperands(n) == CodePtr(bytefile.ip.v + 1 + SizeofI32 * n)
\* the opcode of the instruction executed last
LastOp ==
    IF bytefile.prevIP.t = "ip" THEN CodeByte(file, bytefile, bytefile.prevIP.v) ELSE 0 - 1
\* the k-th u32 operand of the instruction executed last
LastOperand(k) ==
    LET at == bytefile.bytecode.off + bytefile.prevIP.v + 1 + SizeofI32 * k
    IN  IF InBuffer(file, at, SizeofI32) THEN copyValues(file, at) ELSE 0 - 1
\* the byte at code address addr, no byte when addr is outside the bytecode
TargetByte(addr) ==
    IF addr < bytefile.bytecode.size THEN CodeByte(file, bytefile, addr) ELSE 0 - 1

(***************************************************************************)
(* C1                                                                      *)
(***************************************************************************)
\* C1: the exit status is 0 only when the dispatcher's last result is Stop;
\* when loading fails or a step returns Error the exit status is not 0.
C1_ExitStatus ==
    pc = "exit" =>
        /\ exitCode = EXIT_SUCCESS => result = "Stop"
        /\ result = "Error" => exitCode # EXIT_SUCCESS

(***************************************************************************)
(* C2                                                                      *)
(***************************************************************************)
\* C2: in every state reached by executing opcodes from the constructed
\* stack, array start <= top < begin.
C2_TopInRange ==
    (pc = "loop" /\ ub = "") => (0 <= stack.top /\ stack.top < stack.begin)

(***************************************************************************)
(* C3                                                                      *)
(***************************************************************************)
\* C3: after every dispatcher step the ip offset is at most the size of the
\* bytecode, and no step has read past the end of the bytecode.
C3_IpWithinBytecode ==
    pc = "loop" =>
        /\ ub # "code"
        /\ bytefile.ip.t = "ip" => bytefile.ip.v <= bytefile.bytecode.size

(***************************************************************************)
(* C6                                                                      *)
(***************************************************************************)
\* programs whose CALL/BEGIN ... END pairs nest: the outermost frame alone,
\* one call, one closure call, a call in a call
WellNestedFiles ==
    { MkFile(g, Pool, I2(BEGIN, 2, l) \o I0(END)) : g \in Globals, l \in 0 .. MAX_STACK_SIZE }
      \cup { MkFile(g, Pool, CallProgram(a, l, BEGIN, 0)) :
               a \in 0 .. MaxArgs, l \in 0 .. MaxLocals, g \in {0, 1} }
      \cup { MkFile(g, Pool, ClosureProgram(a, l, callee, 0)) :
               a \in 0 .. MaxArgs, l \in 0 .. MaxLocals, callee \in {BEGIN, CBEGIN},
               g \in {0, 1} }
      \cup NestedFiles

\* C6: when a program whose calls nest correctly halts with Stop, bp is
\* the bp of the constructed stack, begin.
C6_BpRestoredAtStop ==
    (file \in WellNestedFiles /\ pc = "loop" /\ result = "Stop" /\ ub = "")
        => stack.bp = StackPtr(stack.begin)

(***************************************************************************)
(* C7                                                                      *)
(***************************************************************************)
\* END or RET is about to run with fewer than 5 + (closure call ? 1 : 0) +
\* nArgs words between top and begin
EndUnderflows ==
    /\ About({END, RET}, 0)
    /\ stack.begin - stack.top < 5 + (IF isClosure THEN 1 ELSE 0) + stack.nArgs

\* C7: an END or RET executed with fewer than 5 + (closure call ? 1 : 0) +
\* nArgs words between top and begin makes the step return Error.
C7_EndUnderflowIsError == [][EndUnderflows => result' = "Error"]_vars

(***************************************************************************)
(* C8                                                                      *)
(***************************************************************************)
\* BEGIN or CBEGIN is about to run with fewer than 4 + nLocals free words
\* between the array start and top
BeginOverflows ==
    /\ About({BEGIN, CBEGIN}, 2)
    /\ stack.top >= 0
    /\ stack.top < 4 + OperandOf(1)

\* C8: BEGIN/CBEGIN executed with fewer than 4 + nLocals free words returns
\* Error, writes no stack word and changes none of top, bp, nArgs, nLocals.
C8_BeginOverflowIsError ==
    [][BeginOverflows => (result' = "Error" /\ ub' = "" /\ stack' = stack)]_vars

(***************************************************************************)
(* C9                                                                      *)
(***************************************************************************)
\* the code address CALLC is about to jump to: the first word of the
\* closure whose pointer lies under the nArgs = OperandOf(0) arguments
ClosureAddress == Deref(Machine, closureSlot(stack, OperandOf(0)))
\* CALLC is about to run on a closure pointer
AboutCallC ==
    /\ About({CALLC}, 1)
    /\ IsCell(heap, closureSlot(stack, OperandOf(0)))
    /\ ClosureAddress.t = "int"

\* a CALL or CALLC whose target is not a (C)BEGIN returns Error
BadTargetIsError ==
    /\ (About({CALL}, 2) /\ TargetByte(OperandOf(0)) # BEGIN) => result' = "Error"
    /\ (AboutCallC /\ TargetByte(ClosureAddress.v) \notin {BEGIN, CBEGIN})
          => result' = "Error"

\* C9 (as stated): a CALL whose target byte is not BEGIN (CBEGIN included)
\* and a CALLC whose closure address is not at a BEGIN or CBEGIN return
\* Error; a CALLC to a BEGIN or a CBEGIN continues.
C9_Original ==
    [][/\ BadTargetIsError
       /\ (AboutCallC /\ TargetByte(ClosureAddress.v) \in {BEGIN, CBEGIN})
             => result' = "Continue"]_vars

\* C9 (amended): the same, where a CALLC to a BEGIN or a CBEGIN continues
\* when the stack has a free word for the return address.
C9_CallTargets ==
    [][/\ BadTargetIsError
       /\ (AboutCallC /\ TargetByte(ClosureAddress.v) \in {BEGIN, CBEGIN}
             /\ stack.top > 0)
             => (result' = "Continue" /\ ub' = "")]_vars

\* a CALLC has continued at the BEGIN its closure points to
C9_Witness ==
    /\ pc = "loop" /\ ub = "" /\ result = "Continue"
    /\ LastOp = CALLC
    /\ isClosure
    /\ Code = BEGIN

(***************************************************************************)
(* C10                                                                     *)
(***************************************************************************)
\* the step sets ip to target when it is inside the bytecode; otherwise it
\* returns Error and leaves ip behind the n operands
JumpsTo(target, n) ==
    IF target >= bytefile.bytecode.size
    THEN result' = "Error" /\ bytefile'.ip = AfterOperands(n)
    ELSE bytefile'.ip = CodePtr(target)

\* CJMPz / CJMPnz is about to run and jumps
Taken ==
    /\ About({CJMPz, CJMPnz}, 1)
    /\ enoughToPop(stack, 1)
    /\ topWord(stack).t = "int"
    /\ (Code = CJMPz) = (UNBOX(topWord(stack).v) = 0)

JumpAndCJmp ==
    /\ About({JMP}, 1) => JumpsTo(OperandOf(0), 1)
    /\ Taken => JumpsTo(OperandOf(0), 1)

\* C10 (as stated): JMP, a taken CJMP, CALL and CALLC return Error and do
\* not set ip when the target is >= the bytecode size, and set ip to the
\* target when it is smaller.
C10_Original ==
    [][/\ JumpAndCJmp
       /\ About({CALL}, 2) => JumpsTo(OperandOf(0), 2)
       /\ AboutCallC => JumpsTo(ClosureAddress.v, 1)]_vars

\* C10 (amended): the same, where CALL and CALLC set ip to a target inside
\* the bytecode when the stack has a free word for the return address;
\* without one they return Error and leave ip behind the operands.
C10_TargetInBytecode ==
    [][/\ JumpAndCJmp
       /\ (About({CALL}, 2) /\ stack.top > 0) => JumpsTo(OperandOf(0), 2)
       /\ (AboutCallC /\ stack.top > 0) => JumpsTo(ClosureAddress.v, 1)
       /\ ((About({CALL}, 2) \/ AboutCallC) /\ stack.top = 0)
             => (result' = "Error" /\ bytefile'.ip = AfterOperands(IF Code = CALL THEN 2 ELSE 1))]_vars

\* a CALL has set ip to its target, where no BEGIN is, and returned Error
C10_Witness ==
    /\ pc = "loop" /\ ub = "" /\ result = "Error"
    /\ LastOp = CALL
    /\ LastOperand(0) >= 0
    /\ LastOperand(0) < bytefile.bytecode.size
    /\ bytefile.ip = CodePtr(LastOperand(0))
    /\ Code # BEGIN

(***************************************************************************)
(* C11                                                                     *)
(***************************************************************************)
\* the word saved as the return address of the frame bp points to
SavedReturnAddress ==
    IF stack.bp.t = "sp" THEN Load(stack, stack.bp.v + 3) ELSE Undef
\* the current frame was entered by CALL or CALLC: its saved return address
\* is a code address
InNestedFrame == SavedReturnAddress.t = "ip"
\* the current frame is the one opened on the constructed stack: its saved
\* return address is the constructor's 0, at begin - 1
InOutermostFrame ==
    /\ stack.bp = StackPtr(stack.begin - 4)
    /\ SavedReturnAddress = Null

\* C11: a step returns Stop exactly when it is an END or RET executed in
\* the outermost frame; an END or RET executed in a frame entered by CALL or
\* CALLC never returns Stop.
C11_StopOnlyInOutermostFrame ==
    [][/\ (About({END, RET}, 0) /\ InNestedFrame) => result' # "Stop"
       /\ (About({END, RET}, 0) /\ InOutermostFrame) => result' = "Stop"
       /\ (result = "Continue" /\ result' = "Stop")
             => (About({END, RET}, 0) /\ ~InNestedFrame)]_vars

(***************************************************************************)
(* C12                                                                     *)
(***************************************************************************)
\* a word the collector can scan: a boxed integer or a pointer to a heap
\* object
IsValue(w) == UNBOXED(w) \/ IsObjRef(heap, w)
\* the slots of the root window [top + 1 .. bottom]
RootWindow == { i \in (stack.top + 1) .. stack.bottom : InArray(i) }

\* C12: once the stack is constructed, and after every handler, every word
\* of the root window [top + 1 .. bottom] is a boxed integer (low bit 1) or
\* a valid heap pointer.
C12_RootsAreValues ==
    (pc = "loop" /\ ub = "") => \A i \in RootWindow : IsValue(stack.innerData[i])

(***************************************************************************)
(* C13                                                                     *)
(***************************************************************************)
\* LD, LDA or ST is about to run on a Local with index >= nLocals, an
\* Argument with index >= nArgs or a Global with index > globalsSize
BadReference ==
    /\ About(Lds \cup Ldas \cup Sts, 1)
    /\ \/ LowNibble(Code) = Local /\ OperandOf(0) >= stack.nLocals
       \/ LowNibble(Code) = Argument /\ OperandOf(0) >= stack.nArgs
       \/ LowNibble(Code) = Global /\ OperandOf(0) > stack.globalsSize

\* C13: a LD, LDA or ST on a Local with index >= nLocals, an Argument with
\* index >= nArgs or a Global with index > globals_size returns Error and
\* leaves top and every stack slot unchanged.
C13_BadReferenceIsError ==
    [][BadReference => (result' = "Error" /\ stack' = stack /\ ub' = "")]_vars

\* a ST on a local beyond the frame's one local, with a word to store on
\* the stack, has returned Error
C13_Witness ==
    /\ pc = "loop" /\ ub = "" /\ result = "Error"
    /\ LastOp = ST_G + Local
    /\ stack.nLocals = 1
    /\ LastOperand(0) >= stack.nLocals
    /\ enoughToPop(stack, 1)
    /\ bytefile.ip = CodePtr(bytefile.prevIP.v + 1 + SizeofI32)

(***************************************************************************)
(* C14                                                                     *)
(***************************************************************************)
\* the integers a boxed word can carry: one bit fewer than the word (the
\* 31-bit signed range of a 32-bit word)
SmallInts == (0 - U32Mod \div 4) .. (U32Mod \div 4 - 1)

\* CALL_Lwrite is about to run right after a CONST n that continued
WriteAfterConst ==
    /\ About({CALL_Lwrite}, 0)
    /\ LastOp = CONST
    /\ bytefile.ip = CodePtr(bytefile.prevIP.v + 1 + SizeofI32)

\* C14: for every n of the 31-bit signed range UNBOX(BOX(n)) = n and the low
\* bit of BOX(n) is 1; CONST n followed by CALL_Lwrite prints n for every
\* such n.
C14_BoxRoundTrip ==
    [][/\ \A n \in SmallInts : UNBOX(BOX(n)) = n /\ BOX(n) % 2 = 1
       /\ (WriteAfterConst /\ ToI32(LastOperand(0)) \in SmallInts)
             => (result' = "Continue" /\ out' = Append(out, ToI32(LastOperand(0))))]_vars

\* CONST n; CALL_Lwrite has printed the smallest integer of the range
C14_Witness ==
    /\ pc = "loop" /\ ub = "" /\ result = "Continue"
    /\ LastOp = CALL_Lwrite
    /\ out = << 0 - U32Mod \div 4 >>
    /\ topWord(stack) = IntW(BOX(0))

(***************************************************************************)
(* C15                                                                     *)
(***************************************************************************)
\* programs whose calls nest correctly, with up to two calls in progress
NestingFiles == WellNestedFiles \cup TwoCallsFiles

\* the current frame was entered by CALLC: the instruction that ends at its
\* saved return address is CALLC n (for CALL addr n the byte there is the
\* last byte of addr, which is 0 in these programs)
EnteredByCallC ==
    /\ InNestedFrame
    /\ SavedReturnAddress.v >= 1 + SizeofI32
    /\ CodeByte(file, bytefile, SavedReturnAddress.v - 1 - SizeofI32) = CALLC
\* the argument count n of the CALL addr n or CALLC n that entered the frame
CallerArgs ==
    copyValues(file, bytefile.bytecode.off + SavedReturnAddress.v - SizeofI32)
\* the slot of the last word the call put on the stack for the callee to
\* consume: the first argument, or the closure pointer under the arguments
LastCallWord ==
    stack.bp.v + 3 + CallerArgs + (IF EnteredByCallC THEN 1 ELSE 0)

\* C15: the END/RET that exits a frame pops the closure pointer if and only
\* if the frame was entered by CALLC: for every nesting of CALL and CALLC it
\* leaves the one return value in place of the n arguments (and of the
\* closure pointer for CALLC n), and nothing else of the caller's stack is
\* removed.
C15_ClosurePointerPopped ==
    [][(file \in NestingFiles /\ About({END, RET}, 0) /\ InNestedFrame)
          => /\ stack'.top = LastCallWord - 1
             /\ topWord(stack') = topWord(stack)]_vars

(***************************************************************************)
(* C16                                                                     *)
(***************************************************************************)
\* the u32 at code offset off
CodeWord(off) == copyValues(file, bytefile.bytecode.off + off)
\* the length of the instruction at code offset off
InstrLen(off) ==
    LET op == CodeByte(file, bytefile, off)
    IN  IF op = CLOSURE THEN 1 + 2 * SizeofI32 + 5 * CodeWord(off + 1 + SizeofI32)
        ELSE IF op \in TwoOperands THEN 1 + 2 * SizeofI32
        ELSE IF op \in OneOperand THEN 1 + SizeofI32
        ELSE 1
\* the offsets at which the instructions of the bytecode start, from off on
RECURSIVE InstrStarts(_)
InstrStarts(off) ==
    IF off >= bytefile.bytecode.size THEN {}
    ELSE {off} \cup InstrStarts(off + InstrLen(off))
\* the offset of the END or RET that closes the function starting at off
RECURSIVE FunctionEnd(_)
FunctionEnd(off) ==
    IF off >= bytefile.bytecode.size THEN 0 - 1
    ELSE IF CodeByte(file, bytefile, off) \in {END, RET} THEN off
    ELSE FunctionEnd(off + InstrLen(off))
\* the address of the function the call at p enters: the operand of CALL, or
\* for CALLC the address in the closure made by the last CLOSURE before p
CallTarget(p) ==
    IF CodeByte(file, bytefile, p) = CALL THEN CodeWord(p + 1)
    ELSE LET made == { q \in InstrStarts(0) : q < p /\ CodeByte(file, bytefile, q) = CLOSURE }
         IN  IF made = {} THEN 0 - 1
             ELSE CodeWord((CHOOSE q \in made : \A r \in made : r <= q) + 1)
\* the calls whose callee is closed by the END or RET at offset e
CallsOf(e) ==
    { p \in InstrStarts(0) :
        /\ CodeByte(file, bytefile, p) \in {CALL, CALLC}
        /\ CallTarget(p) >= 0
        /\ FunctionEnd(CallTarget(p)) = e }
\* the offset of the instruction after the operands of the call at p
AfterCall(p) ==
    p + (IF CodeByte(file, bytefile, p) = CALL THEN 1 + 2 * SizeofI32 ELSE 1 + SizeofI32)

BeginsBefore(off) ==
    { q \in InstrStarts(0) : q < off /\ CodeByte(file, bytefile, q) \in {BEGIN, CBEGIN} }
\* the offset of the BEGIN of the function the instruction at off belongs to
EnclosingBegin(off) == CHOOSE q \in BeginsBefore(off) : \A r \in BeginsBefore(off) : r <= q
\* programs whose calls nest correctly, and those whose main declares any
\* number of arguments before it calls
ReturningFiles ==
    NestingFiles \cup { MkFile(g, Pool, WideMainProgram(a)) : a \in DeclaredArgs, g \in {0, 1} }

\* a called function has returned into its caller
JustReturned ==
    /\ pc = "loop" /\ ub = "" /\ result = "Continue"
    /\ LastOp \in {END, RET}
    /\ IpInBuffer
    /\ BeginsBefore(bytefile.ip.v) # {}

\* C17: after a callee returns, nArgs and nLocals are the values the
\* caller's own BEGIN a l declared, for every pair of u32 values a and l.
C17_CountersRestored ==
    (file \in ReturningFiles /\ JustReturned)
        => /\ stack.nArgs = CodeWord(EnclosingBegin(bytefile.ip.v) + 1)
           /\ stack.nLocals = CodeWord(EnclosingBegin(bytefile.ip.v) + 1 + SizeofI32)

(***************************************************************************)
(* C18                                                                     *)
(***************************************************************************)
\* the reference the LD, LDA or ST at ip asks getReference for
AskedReference == getReference(stack, OperandOf(0), LowNibble(Code))

\* C18: every address getReference returns for a Global, Local or Argument
\* reference is a slot of the stack array; a Global reference is a slot of
\* the globals region [begin + 1 .. bottom], a Local or Argument reference a
\* slot at or below begin.
C18_ReferencesInArray ==
    (About(Lds \cup Ldas \cup Sts, 1) /\ LowNibble(Code) # Captured
        /\ AskedReference.t # "none")
        => /\ AskedReference.t = "sp"
           /\ InArray(AskedReference.v)
           /\ LowNibble(Code) = Global
                => (AskedReference.v >= stack.begin + 1 /\ AskedReference.v <= stack.bottom)
           /\ LowNibble(Code) # Global => AskedReference.v <= stack.begin

(***************************************************************************)
(* C19                                                                     *)
(***************************************************************************)
\* the slots of the globals [begin + 1 .. bottom]
GlobalSlots == { i \in (stack.begin + 1) .. stack.bottom : InArray(i) }

\* C19: the END/RET of the outermost frame that halts the program with Stop
\* changes no global slot and writes no word outside the stack array, for
\* every number of globals, 0 included.
C19_StopKeepsGlobals ==
    [][(About({END, RET}, 0) /\ InOutermostFrame /\ result' = "Stop")
          => /\ ub' = ""
             /\ \A i \in GlobalSlots : stack'.innerData[i] = stack.innerData[i]]_vars

(***************************************************************************)
(* C20                                                                     *)
(***************************************************************************)
\* C20: for every global area size of an accepted header, constructing the
\* stack leaves array start <= top < begin <= bottom with exactly the two
\* words BOX(0) and 0 pushed, and places neither begin nor top outside the
\* array (main has no error to end the run with at this point).
C20_ConstructedInArray ==
    [][pc = "construct"
          => /\ ub' = ""
             /\ 0 <= stack'.top
             /\ stack'.top < stack'.begin
             /\ stack'.begin <= stack'.bottom
             /\ stack'.bottom = MAX_STACK_SIZE - 1
             /\ stack'.top = stack'.begin - 2
             /\ Load(stack', stack'.begin) = IntW(BOX(0))
             /\ Load(stack', stack'.begin - 1) = Null]_vars

(***************************************************************************)
(* C21                                                                     *)
(***************************************************************************)
\* C21: PATT_str executed with fewer than two words between top and begin
\* returns Error and pops nothing; PATT_str never leaves top above begin and
\* never reads a word above begin.
C21_PattStrUnderflowIsError ==
    [][/\ (About({PATT_str}, 0) /\ stack.begin - stack.top < 2)
             => (result' = "Error" /\ stack' = stack /\ ub' = "")
       /\ About({PATT_str}, 0) => stack'.top <= stack'.begin]_vars

(***************************************************************************)
(* C22                                                                     *)
(***************************************************************************)
\* C22: CALLC n executed with fewer than n + 1 words between top and begin
\* returns Error and does not read the slot top + 1 + n, which lies above
\* the occupied region.
C22_CallCReadsOccupiedSlot ==
    [][(About({CALLC}, 1) /\ stack.begin - stack.top < OperandOf(0) + 1)
           => (result' = "Error" /\ ub' = "" /\ stack' = stack)]_vars

(***************************************************************************)
(* C23                                                                     *)
(***************************************************************************)
\* the code offset of the capture descriptors of the CLOSURE at ip
CapturesAt == bytefile.ip.v + 1 + SizeofI32 * 2
\* the reference the CLOSURE at ip resolves for its k-th descriptor
CaptureRef(k) ==
    getReference(stack, ArgIndex(file, bytefile, CapturesAt, k),
                 ArgType(file, bytefile, CapturesAt, k))
\* the loop of the CLOSURE at ip reaches its k-th descriptor and takes a
\* value from a global, local or argument slot for it
CapturesSlot(k) ==
    /\ \A j \in 0 .. k : ArgInBuffer(file, bytefile, CapturesAt, j)
    /\ \A j \in 0 .. k : CaptureRef(j) # NoRef
    /\ ArgType(file, bytefile, CapturesAt, k) \in {Global, Local, Argument}
\* the step from this state called the allocator and got an object
AllocatorReturned ==
    ~(heap' = heap /\ result' = "Continue" /\ stack' = stack /\ ub' = "")

\* C23: when CALL_Barray n, SEXP tag n or CLOSURE calls the allocator, every
\* value that the step stores into the new object is held in a stack slot of
\* the root window [top + 1 .. bottom] the allocator finds; the n operands
\* of CALL_Barray and SEXP are popped only after the allocation.
C23_AllocatedFromRoots ==
    [][/\ ((About({CALL_Barray}, 1) \/ About({SEXP}, 2))
              /\ Len(heap') = Len(heap) + 1 /\ ub' = "")
          => LET n == IF Code = SEXP THEN OperandOf(1) ELSE OperandOf(0)
                 o == heap'[Len(heap')]
             IN  /\ o.top = stack.top
                 /\ Len(o.cells) = n
                 /\ \A k \in 1 .. n :
                        LET slot == stack.top + 1 + n - k
                        IN  /\ slot \in (o.top + 1) .. stack.bottom
                            /\ o.cells[k] = stack.innerData[slot]
       /\ (About({CLOSURE}, 2) /\ enoughToPush(stack, 1) /\ AllocatorReturned)
          => \A k \in 0 .. (OperandOf(1) - 1) :
                CapturesSlot(k) =>
                    /\ CaptureRef(k).t = "sp"
                    /\ CaptureRef(k).v \in (stack.top + 1) .. stack.bottom]_vars

(***************************************************************************)
(* C24                                                                     *)
(***************************************************************************)
\* C24: a CLOSURE step that returns Continue has pushed exactly one word, the
\* pointer to the closure it allocated (a step whose allocator returned null
\* returns Error, so it is not among them).
C24_ClosureContinuePushes ==
    [][(About({CLOSURE}, 2) /\ result' = "Continue" /\ ub' = "")
          => /\ stack'.top = stack.top - 1
             /\ Len(heap') = Len(heap) + 1
             /\ heap'[Len(heap')].kind = "closure"
             /\ topWord(stack') = HeapPtr(Len(heap'), 0)]_vars

(***************************************************************************)
(* C25                                                                     *)
(***************************************************************************)
\* the file is a snapshot program; its capture descriptor follows the
\* CLOSURE at code offset 20
InSnapshotProgram == file \in SnapshotFiles
SnapshotKind == ArgType(file, bytefile, 29, 0)
SnapshotIndex == ArgIndex(file, bytefile, 29, 0)
\* the slot of the captured variable, a variable of the outermost frame
SnapshotVariable ==
    CASE SnapshotKind = Global -> stack.begin + 1 + SnapshotIndex
      [] SnapshotKind = Local -> stack.begin - 5 - SnapshotIndex
      [] OTHER -> stack.begin + 1 - SnapshotIndex
\* the first captured cell of the closure the current frame runs
CapturedCell == Deref([stack |-> stack, heap |-> heap], getReference(stack, 0, Captured))
StepDone == pc = "loop" /\ ub = "" /\ result = "Continue"

\* C25: captured cells are snapshots.  CLOSURE copies the word of each
\* captured local, argument or global into the closure; a ST to a local,
\* argument or global changes no heap cell, so the closure's LD_C still
\* reads the captured word; a ST_C changes no stack slot.  In the snapshot
\* programs LD_C reads the 3 captured before the variable became 4, and
\* after the closure's ST_C of 9 the variable is still 4.
C25_CapturesAreSnapshots ==
    /\ [](InSnapshotProgram /\ StepDone /\ LastOp = LD_G + Captured
             => /\ topWord(stack) = IntW(BOX(3))
                /\ stack.innerData[SnapshotVariable] = IntW(BOX(4)))
    /\ [](InSnapshotProgram /\ StepDone /\ LastOp = ST_G + Captured
             => /\ CapturedCell = IntW(BOX(9))
                /\ stack.innerData[SnapshotVariable] = IntW(BOX(4)))
    /\ [][/\ (About({CLOSURE}, 2) /\ ub' = "" /\ Len(heap') = Len(heap) + 1
                 /\ result' = "Continue")
             => \A k \in 0 .. (OperandOf(1) - 1) :
                   ArgType(file, bytefile, CapturesAt, k) \in {Global, Local, Argument}
                       => heap'[Len(heap')].cells[k + 2]
                              = stack.innerData[CaptureRef(k).v]
          /\ (About(Sts \ {ST_G + Captured}, 1) /\ ub' = "") => heap' = heap
          /\ (About({ST_G + Captured}, 1) /\ ub' = "") => stack' = stack]_vars

\* the closure of a snapshot program has loaded its cell: 3, while the
\* captured variable holds 4
C25_Witness ==
    /\ InSnapshotProgram /\ StepDone /\ LastOp = LD_G + Captured
    /\ topWord(stack) = IntW(BOX(3))
    /\ stack.innerData[SnapshotVariable] = IntW(BOX(4))

(***************************************************************************)
(* C26                                                                     *)
(***************************************************************************)
\* the file is an argument program; its argument words are pushed by the
\* CONSTs behind main's BEGIN (and behind the CLOSURE of a closure call)
InArgsProgram == file \in ArgsFiles
FirstArgConst == IF CodeByte(file, bytefile, 9) = CLOSURE THEN 18 ELSE 9
\* a_k, the operand of the k-th CONST
PushedArg(k) == copyValues(file, bytefile.bytecode.off + FirstArgConst + 5 * k + 1)

\* C26: the caller pushed a_0 .. a_(n-1) in this order and entered, by CALL
\* addr n or CALLC n, a callee that begins with BEGIN n l: the callee's
\* LD_A i pushes a_i for every i < n, and is an Error for i >= n.
C26_ArgumentOrder ==
    (InArgsProgram /\ pc = "loop" /\ ub = "" /\ LastOp = LD_G + Argument)
        => IF LastOperand(0) < stack.nArgs
           THEN /\ result = "Continue"
                /\ InNestedFrame
                /\ topWord(stack) = IntW(BOX(PushedArg(LastOperand(0))))
           ELSE result = "Error"

\* the callee of a two-argument call has loaded its argument 1, the word
\* pushed last
C26_Witness ==
    /\ InArgsProgram /\ StepDone /\ LastOp = LD_G + Argument
    /\ stack.nArgs = 2 /\ LastOperand(0) = 1
    /\ topWord(stack) = IntW(BOX(11))

(***************************************************************************)
(* C27.  The binary operators on every pair of 31-bit operands of which    *)
(* one is arbitrary and the other one of the boundary values.              *)
(***************************************************************************)
BoundaryInts == {0 - U32Mod \div 4, 0 - 1, 0, 1, 2, U32Mod \div 4 - 1}
OperandPairs == (SmallInts \X BoundaryInts) \cup (BoundaryInts \X SmallInts)

\* main pushes a and b and applies op
BinopProgram(op, a, b) ==
    I2(BEGIN, 2, 0) \o I1(CONST, ToU32(a)) \o I1(CONST, ToU32(b)) \o I0(op) \o I0(END)
BinopFiles ==
    { MkFile(0, Pool, BinopProgram(op, ab[1], ab[2])) : op \in BinOps, ab \in OperandPairs }

NextBinOp ==
    \/ ReadBytefile
    \/ Construct
    \/ DoBegin
    \/ DoConst
    \/ DoBinOp
    \/ DoEndOrRet
SpecBinOp == InitWith(BinopFiles) /\ [][NextBinOp]_vars

\* a op b on the integers; the quotient is rounded toward zero
Exact(op, a, b) ==
    LET q == IF b = 0 THEN 0
             ELSE IF (a < 0) = (b < 0) THEN Abs(a) \div Abs(b)
             ELSE 0 - (Abs(a) \div Abs(b))
    IN  CASE op = BINOP_add -> a + b
          [] op = BINOP_sub -> a - b
          [] op = BINOP_mul -> a * b
          [] op = BINOP_div -> q
          [] op = BINOP_rem -> a - b * q
          [] op = BINOP_lt -> IF a < b THEN 1 ELSE 0
          [] op = BINOP_le -> IF a <= b THEN 1 ELSE 0
          [] op = BINOP_gt -> IF a > b THEN 1 ELSE 0
          [] op = BINOP_ge -> IF a >= b THEN 1 ELSE 0
          [] op = BINOP_eq -> IF a = b THEN 1 ELSE 0
          [] op = BINOP_ne -> IF a # b THEN 1 ELSE 0
          [] op = BINOP_and -> IF a # 0 /\ b # 0 THEN 1 ELSE 0
          [] OTHER -> IF a # 0 \/ b # 0 THEN 1 ELSE 0

\* the BINOP at ip follows CONST a; CONST b
AfterTwoConsts ==
    /\ About(BinOps, 0)
    /\ bytefile.ip.v >= 10
    /\ CodeByte(file, bytefile, bytefile.ip.v - 10) = CONST
    /\ CodeByte(file, bytefile, bytefile.ip.v - 5) = CONST
    /\ bytefile.prevIP = CodePtr(bytefile.ip.v - 5)
LeftOperand == ToI32(CodeWord(bytefile.ip.v - 9))
RightOperand == ToI32(CodeWord(bytefile.ip.v - 4))
\* the step replaces the two pushed words by the one word w
ReplacesTwoBy(w) ==
    /\ result' = "Continue" /\ ub' = ""
    /\ stack'.top = stack.top + 1
    /\ topWord(stack') = w
    /\ \A i \in (stack.top + 3) .. (MAX_STACK_SIZE - 1) :
           stack'.innerData[i] = stack.innerData[i]
\* the operation the code has no defined result for
NoResult(op, a, b) ==
    \/ op \in {BINOP_div, BINOP_rem} /\ b = 0
    \/ op = BINOP_mul /\ (a * b < 0 - U32Mod \div 2 \/ a * b >= U32Mod \div 2)
BinopResult(op, a, b) ==
    /\ ReplacesTwoBy(IntW(BOX(Exact(op, a, b))))
    /\ op \in (BINOP_lt .. BINOP_or) => topWord(stack') \in {IntW(BOX(0)), IntW(BOX(1))}

\* C27 as stated: for every binary opcode and all 31-bit a and b, CONST a;
\* CONST b; BINOP_op leaves the stack two words shorter plus the one word
\* BOX(a op b), a the left and b the right operand; comparisons, and, or give
\* 0 or 1.
C27_Original ==
    [][AfterTwoConsts => BinopResult(Code, LeftOperand, RightOperand)]_vars

\* C27, amended: the same for every binary opcode and all 31-bit a and b
\* except a division or remainder by b = 0 and a product that does not fit
\* the 32-bit integer, for which the step has no defined result.
C27_BinopResult ==
    [][(AfterTwoConsts /\ ~NoResult(Code, LeftOperand, RightOperand))
           => BinopResult(Code, LeftOperand, RightOperand)]_vars

\* 3 - 2 has been computed: the word on top is BOX(1), not BOX(2 - 3)
C27_Witness ==
    /\ file \in BinopFiles /\ StepDone /\ LastOp = BINOP_sub
    /\ ToI32(CodeWord(bytefile.prevIP.v - 9)) = 3
    /\ ToI32(CodeWord(bytefile.prevIP.v - 4)) = 2
    /\ topWord(stack) = IntW(BOX(1))

(***************************************************************************)
(* C28                                                                     *)
(***************************************************************************)
\* CJMPz / CJMPnz is about to run on a stack with a word to pop
AboutCJmp == About({CJMPz, CJMPnz}, 1) /\ enoughToPop(stack, 1)
\* ... whose integer value makes the step go on behind the operand
NotTaken ==
    /\ AboutCJmp
    /\ topWord(stack).t = "int"
    /\ (Code = CJMPz) = (UNBOX(topWord(stack).v) # 0)
\* the step pops exactly one word and writes no slot
PopsOne ==
    /\ stack'.top = stack.top + 1
    /\ stack'.innerData = stack.innerData

\* C28 as stated: CJMPz addr pops one word and sets ip to addr iff the
\* unboxed value is 0, CJMPnz addr iff it is not 0; otherwise ip is the
\* offset behind the operand; one word is popped in both cases.
C28_Original ==
    [][AboutCJmp =>
          /\ PopsOne
          /\ Taken => bytefile'.ip = CodePtr(OperandOf(0))
          /\ NotTaken => bytefile'.ip = AfterOperands(1)]_vars

\* C28, amended: the same for an addr inside the bytecode.  A taken jump to
\* an addr >= the bytecode size pops the word, returns Error and leaves ip
\* behind the operand; a jump not taken leaves ip behind the operand and
\* returns Error when that offset is the end of the bytecode; without a
\* word to pop the step returns Error and leaves the stack as it is.
C28_CondJump ==
    [][/\ AboutCJmp =>
             /\ PopsOne
             /\ Taken => JumpsTo(OperandOf(0), 1)
             /\ (Taken /\ OperandOf(0) < bytefile.bytecode.size) => result' = "Continue"
             /\ NotTaken =>
                   /\ bytefile'.ip = AfterOperands(1)
                   /\ (result' = "Error")
                          = (AfterOperands(1).v >= bytefile.bytecode.size)
             /\ ub' = ""
       /\ (About({CJMPz, CJMPnz}, 1) /\ ~enoughToPop(stack, 1))
             => (result' = "Error" /\ stack' = stack /\ ub' = "")]_vars

\* a CJMPnz has popped a non-zero word and jumped, not to the next
\* instruction
C28_Witness ==
    /\ StepDone /\ LastOp = CJMPnz
    /\ bytefile.ip = CodePtr(LastOperand(0))
    /\ LastOperand(0) # bytefile.prevIP.v + 5

(***************************************************************************)
(* C29                                                                     *)
(***************************************************************************)
\* ST_G, ST_L or ST_A is about to run with a word on the stack and an index
\* getReference accepts
AboutStore ==
    /\ About({ST_G + Global, ST_G + Local, ST_G + Argument}, 1)
    /\ enoughToPop(stack, 1)
    /\ getReference(stack, OperandOf(0), LowNibble(Code)) # NoRef
StoreSlot == getReference(stack, OperandOf(0), LowNibble(Code)).v
\* the LD at ip follows, in the code and in the run, a ST of the same kind
\* and index that continued
LoadsAfterStore ==
    /\ About({LD_G + Global, LD_G + Local, LD_G + Argument}, 1)
    /\ bytefile.prevIP = CodePtr(bytefile.ip.v - 5)
    /\ LastOp = ST_G + LowNibble(Code)
    /\ LastOperand(0) = OperandOf(0)

\* C29: ST_k idx (k Global, Local or Argument) with a valid index leaves top
\* and every stack word but the resolved slot unchanged and writes the top
\* word into that slot, a slot of the array; a LD_k idx that follows
\* immediately and continues pushes a word equal to the word below it.
C29_StoreThenLoad ==
    [][/\ AboutStore =>
             /\ result' = "Continue" /\ ub' = ""
             /\ InArray(StoreSlot)
             /\ stack'.top = stack.top
             /\ stack'.innerData = [stack.innerData EXCEPT ![StoreSlot] = topWord(stack)]
       /\ (LoadsAfterStore /\ result' = "Continue")
             => /\ ub' = ""
                /\ topWord(stack') = stack'.innerData[stack'.top + 2]]_vars

(***************************************************************************)
(* C30                                                                     *)
(***************************************************************************)
\* C30: after a BEGIN / CBEGIN a l that continued, the local slots
\* bp - 1 .. bp - l and the scratch slot bp - l - 1 hold BOX(0), whatever
\* these words held before; a LD_L i with i < l that follows the BEGIN
\* (no ST_L i between them) and continues pushes BOX(0).
C30_LocalsAreZero ==
    [][/\ (About({BEGIN, CBEGIN}, 2) /\ result' = "Continue" /\ ub' = "")
             => /\ stack'.nLocals = OperandOf(1)
                /\ stack'.top = stack'.bp.v - OperandOf(1) - 2
                /\ \A i \in 0 .. OperandOf(1) :
                      /\ InArray(stack'.bp.v - 1 - i)
                      /\ stack'.innerData[stack'.bp.v - 1 - i] = IntW(BOX(0))
       /\ (About({LD_G + Local}, 1) /\ LastOp \in {BEGIN, CBEGIN}
             /\ OperandOf(0) < stack.nLocals /\ result' = "Continue" /\ ub' = "")
             => topWord(stack') = IntW(BOX(0))]_vars

\* a frame with two locals was opened on slots that held the words pushed
\* and dropped before, and its local 1 was loaded: BOX(0)
C30_Witness ==
    /\ file \in ReusedSlotsFiles /\ StepDone
    /\ LastOp = LD_G + Local /\ LastOperand(0) = 1
    /\ stack.nLocals = 2
    /\ topWord(stack) = IntW(BOX(0))

(***************************************************************************)
(* C31                                                                     *)
(***************************************************************************)
\* CALL_Barray n, or SEXP tag n with a tag of the string pool, is about to
\* run; Elements is its n
AboutConstructor ==
    \/ About({CALL_Barray}, 1)
    \/ About({SEXP}, 2) /\ getString(bytefile, OperandOf(0))
Elements == IF Code = SEXP THEN OperandOf(1) ELSE OperandOf(0)
\* the pointer the step pushes for the object it allocated
NewObject ==
    HeapPtr(Len(heap'), IF Code = SEXP THEN SexpTagCell ELSE 0)

\* C31: CALL_Barray n and SEXP tag n with at least n words between top and
\* begin remove exactly the n topmost words and push one pointer to a new
\* object whose element i (i < n) is the (i + 1)-th of these words in the
\* order they were pushed, and change no other word; with fewer than n words
\* they return Error and leave the stack as it is.
C31_ConstructorElements ==
    [][AboutConstructor =>
          IF ~enoughToPop(stack, Elements)
          THEN result' = "Error" /\ stack' = stack /\ heap' = heap /\ ub' = ""
          ELSE /\ result' = "Continue" /\ ub' = ""
               /\ stack'.top = stack.top + Elements - 1
               /\ InArray(stack'.top + 1)
               /\ Len(heap') = Len(heap) + 1
               /\ topWord(stack') = NewObject
               /\ Len(heap'[Len(heap')].cells) = Elements
               /\ \A i \in 0 .. (Elements - 1) :
                      heap'[Len(heap')].cells[i + 1]
                          = stack.innerData[stack.top + Elements - i]
               /\ \A j \in 0 .. (MAX_STACK_SIZE - 1) :
                      j # stack'.top + 1 => stack'.innerData[j] = stack.innerData[j]]_vars

(***************************************************************************)
(* C32                                                                     *)
(***************************************************************************)
\* the slot the LDA at ip resolves
Resolved == getReference(stack, OperandOf(0), LowNibble(Code))
\* the instruction at ip is an LDA whose index resolves to a slot
AboutLda == About(Ldas, 1) /\ Resolved.t \in {"sp", "hp"}
\* the words a push can take: top stays at or above the array start
FreeWords == stack.top

\* C32: LDA_k idx with a valid index pushes exactly two words, both equal to
\* the address of the resolved slot, and changes no other stack word; with
\* fewer than two free words it returns Error and pushes nothing.
C32_LoadAccumulator ==
    [][AboutLda =>
          IF FreeWords < 2
          THEN result' = "Error" /\ stack' = stack /\ ub' = ""
          ELSE /\ result' = "Continue" /\ ub' = ""
               /\ stack'.top = stack.top - 2
               /\ stack'.innerData[stack.top] = Resolved
               /\ stack'.innerData[stack.top - 1] = Resolved
               /\ \A j \in 0 .. (MAX_STACK_SIZE - 1) :
                      j \notin {stack.top, stack.top - 1}
                          => stack'.innerData[j] = stack.innerData[j]
               /\ stack'.bp = stack.bp /\ stack'.begin = stack.begin]_vars

====
